---- MODULE Spec2Model ----
(***************************************************************************)
(* A model of the upmc updater: the retry executor (retry.rs), the worker  *)
(* / GUI hand-over of the terminal outcome (gui.rs) and the staged update  *)
(* pipeline (update.rs) with the persisted files it reads and writes.      *)
(*                                                                         *)
(* Several specifications share the module:                                 *)
(*   SpecRetry   one call of retry::with_retry, one loop iteration a step   *)
(*   SpecGui     the worker thread and the GUI event loop of UpdaterApp     *)
(*   Spec        successive runs of update::run_update on one install dir   *)
(*   SpecUpdate  selfupdate::check_and_update step by step, the helper      *)
(*               process it schedules and the executable it relaunches     *)
(*   SpecSemver  one call of selfupdate::is_remote_newer                    *)
(* Each specification parks the variables of the others.                    *)
(***************************************************************************)
EXTENDS Integers, Sequences, FiniteSets, TLC

\* ------------------------------------------------------------------------
\* Bounds of the model (not program constants)
\* ------------------------------------------------------------------------

\* largest max_attempts a caller of with_retry passes
MaxAttemptsBound == 4

\* largest base_delay_secs a caller of with_retry passes
MaxBaseDelay == 3

\* most progress callbacks the worker makes before run_update returns
MaxProgress == 2

\* most processes started one after the other on the same install directory
MaxRuns == 2

\* most operations that fail, and processes that are killed, in one history
MaxFaults == 1

\* updater processes of one restart chain that are followed
MaxGen == 2

\* longest remote version string passed to is_remote_newer
MaxVersionLen == 5

\* entries of a settings archive
MaxEntries == 2

\* ------------------------------------------------------------------------
\* Program constants
\* ------------------------------------------------------------------------

RETRY_MAX_ATTEMPTS == 3

RETRY_BASE_DELAY_SECS == 3

\* for($i=0;$i -lt 3;$i++) in the replacement script
HELPER_COPY_ATTEMPTS == 3

\* Option::None
None == "None"

VARIABLES
    \* ---- retry::with_retry ----
    r_pc,          \* "start" | "loop" | "after" | "done" | "parked"
    r_max,         \* max_attempts
    r_base,        \* base_delay_secs
    r_name,        \* operation_name
    r_attempt,     \* the loop variable `attempt`
    r_last_error,  \* last_error : Option<Error>
    r_log,         \* what the call did so far: calls of f and sleeps, in order
    r_result,      \* the returned Result<T>, Pending while running
    \* ---- gui.rs: the worker thread ----
    w_pc,          \* where the worker closure stands
    w_result,      \* what run_update returned, None before
    w_progress,    \* progress callbacks made so far
    w_posted,      \* every FinishState written to shared_state.finish, in order
    guard_completed, \* PanicGuard.completed
    \* ---- gui.rs: SharedState behind the mutex ----
    s_progress,    \* SharedState.progress (the number of the latest report)
    s_finish,      \* SharedState.finish : Option<FinishState>
    \* ---- gui.rs: the GUI thread ----
    notices,       \* notices sent and not yet dispatched to on_progress_update
    g_pc,          \* "dispatch" | "stopping" | "exited" | "parked"
    g_shown,       \* what the progress bar shows
    g_takes,       \* what each on_progress_update call took out of finish, in order
    launch_timer,  \* launch_timer is active
    launched,      \* how often the launcher was spawned
    \* ---- update.rs: successive runs on one install directory ----
    pc,            \* the stage run_update stands before; "idle": no process
    p_run,         \* processes started so far
    p_remote,      \* what the servers serve during this run
    p_channel,     \* the ChannelConfig main hands to the run
    p_served,      \* whether server.json and pack.toml of the run can be parsed
    p_events,      \* the operations run_update invoked in this run, with success
    p_percent,     \* the percent this run reported last
    p_outcome,     \* what run_update returned, NotReturned before
    p_disk0,       \* the files as they were when run_update was entered
    disk,          \* the files under the install directory and beside the exe
    h_saved,       \* tags of the last completed upgrade, while the remote stayed the same
    p_faults,      \* failed or interrupted operations and killed processes so far
    \* ---- selfupdate.rs: the updater process that checks for a new executable ----
    u_rev,         \* which selfupdate.rs is built in: "helper" (upmc) | "rename" (updater-rs)
    u_gen,         \* how many updater processes of the restart chain were started
    u_pc,          \* where the latest updater process stands
    u_alive,       \* the latest updater process has not exited
    u_cfg,         \* the ChannelConfig main hands to check_and_update
    u_info,        \* what the version document of the channel says
    u_version,     \* CURRENT_VERSION compiled into the running executable
    u_attempt,     \* `attempt` of the with_retry around download_and_verify
    u_dl,          \* how each download attempt of this check ended, in order
    u_percent,     \* the percent check_and_update reported last
    u_result,      \* what check_and_update returned, "none" before
    u_results,     \* what check_and_update returned in each process, in order
    u_disk,        \* the executable, its .new and .old siblings, channel.json
    u_disk0,       \* these files as check_and_update found them
    u_writers,     \* who changed the final executable path so far
    \* ---- selfupdate.rs: the PowerShell helper that replaces the executable ----
    hp_pc,         \* "none" | "wait" | "copy" | "cleanup" | "start" | "done"
    hp_wait,       \* how Wait-Process ended: "exited" | "timeout", None before
    hp_copies,     \* how each Copy-Item of this helper ended, in order
    hp_ok,         \* $ok
    hp_starts,     \* how often this helper ran Start-Process
    hp_runs,       \* helpers spawned so far
    \* ---- selfupdate.rs: one call of is_remote_newer ----
    sv_pc,         \* "typing" | "called" | "parked"
    sv_current,    \* the argument `current`, a sequence of characters
    sv_remote,     \* the argument `remote`, a sequence of characters
    sv_result,     \* what is_remote_newer returned, None before
    \* ---- the network operations of one run (checked under SpecNet) ----
    n_pc,          \* "next" | "call" | "done" | "parked"
    n_idx,         \* how many network operations of NetSites the run has reached
    n_attempt,     \* the attempt the operation at n_idx is in, 0 when it is not called
    n_calls,       \* per operation, how often the run issued it
    n_failed,      \* the operations whose error reached run_update
    n_result,      \* how the run ended, "none" before
    \* ---- extract_settings_zip (checked under SpecZip) ----
    z_pc,          \* "start" | "extracted" | "parked"
    z_archive,     \* the entries of the settings archive, in order
    z_before,      \* the destination directory before the first extraction
    z_prev,        \* the destination directory before the latest extraction
    z_fs,          \* the destination directory
    z_results,     \* per extraction so far, whether it returned Ok
    \* ---- resolve_channel over successive launches (checked under SpecChannel) ----
    c_pc,          \* "launch" | "running" | "parked"
    c_file,        \* channel.json
    c_cli,         \* the channel the latest command line named, "none" without --channel
    c_cfg,         \* the ChannelConfig the latest resolve_channel returned
    c_saves,       \* how often save_channel_config was called
    \* ---- extract_zip_strip_toplevel (checked under SpecStrip) ----
    t_pc,          \* "start" | "extracted" | "parked"
    t_archive,     \* the entry names of the archive, in order
    t_out,         \* per entry, the path below dest it was written to (empty: skipped)
    \* ---- cleanup_old_versions (checked under SpecVersions) ----
    v_pc,          \* "start" | "returned" | "parked"
    v_exists,      \* whether .minecraft/versions/ exists
    v_before,      \* per entry name, what the directory held before the call
    v_entries,     \* per entry name, what the directory holds
    v_keep,        \* the keep_tag of the call
    v_result,      \* "none" | "Ok" | "Err"
    \* ---- the repeated steps of run_update (checked under SpecEnsure) ----
    e_pc,          \* "version_check" | "ensure_vanilla" | "fix_isolation" | "sync" | "launched" | "failed" | "parked"
    e_run,         \* the number of the run
    e_upgraded,    \* whether this run went through the upgrade stage
    e_json,        \* versions/<mc>/<mc>.json
    e_jar,         \* versions/<mc>/<mc>.jar
    e_ini,         \* versions/<version_tag>/PCL/Setup.ini
    e_called,      \* the repeated steps this run has called
    e_requests,    \* the requests the latest ensure_vanilla_client sent
    e_wrote        \* whether the latest ensure_vanilla_client wrote to the disk

retryVars == <<r_pc, r_max, r_base, r_name, r_attempt, r_last_error, r_log, r_result>>

workerVars == <<w_pc, w_result, w_progress, w_posted, guard_completed>>

sharedVars == <<s_progress, s_finish>>

guiThreadVars == <<notices, g_pc, g_shown, g_takes, launch_timer, launched>>

guiVars == <<workerVars, sharedVars, guiThreadVars>>

pipeVars == <<pc, p_run, p_remote, p_served, p_channel, p_events, p_percent, p_outcome,
              p_disk0, disk, h_saved, p_faults>>

suVars == <<u_rev, u_gen, u_pc, u_alive, u_cfg, u_info, u_version, u_attempt, u_dl,
            u_percent, u_result, u_results, u_disk, u_disk0, u_writers>>

helperVars == <<hp_pc, hp_wait, hp_copies, hp_ok, hp_starts, hp_runs>>

semverVars == <<sv_pc, sv_current, sv_remote, sv_result>>

netVars == <<n_pc, n_idx, n_attempt, n_calls, n_failed, n_result>>

zipVars == <<z_pc, z_archive, z_before, z_prev, z_fs, z_results>>

chanVars == <<c_pc, c_file, c_cli, c_cfg, c_saves>>

stripVars == <<t_pc, t_archive, t_out>>

versionsVars == <<v_pc, v_exists, v_before, v_entries, v_keep, v_result>>

ensureVars == <<e_pc, e_run, e_upgraded, e_json, e_jar, e_ini, e_called, e_requests, e_wrote>>

sideVars == <<netVars, zipVars, chanVars, stripVars, versionsVars, ensureVars>>

updVars == <<suVars, helperVars, semverVars, sideVars>>

vars == <<retryVars, guiVars, pipeVars, updVars>>

\* ========================================================================
\* retry.rs
\* ========================================================================

\* values an operation may return in Ok(..)
OkValues == {"v1", "v2"}

\* errors an operation may return in Err(..)
OpErrors == {"e1", "e2"}

OperationNames == {"fetch_remote", "sync_modpack"}

\* what one call of the closure f returns
Outcomes == [ok : {TRUE}, value : OkValues] \cup [ok : {FALSE}, err : OpErrors]

\* 2u64.saturating_pow(n); the u64 ceiling is out of reach for n < 64
saturating_pow2(n) == 2 ^ n

\* u64::saturating_mul; the u64 ceiling is out of reach within the bounds
saturating_mul(a, b) == a * b

\* a faulty variant: linear instead of exponential backoff
BackoffDelay_Linear(base, attempt) == saturating_mul(base, attempt)

\* let delay = base_delay_secs.saturating_mul(2u64.saturating_pow(attempt - 1));
BackoffDelay(base, attempt) == saturating_mul(base, saturating_pow2(attempt - 1))

\* err.context(format!("{} 重试 {} 次后仍然失败", operation_name, max_attempts))
WithContext(err, name, max) ==
    [ok |-> FALSE, kind |-> "context", cause |-> err, operation |-> name, attempts |-> max]

\* Ok(value)
OkResult(v) == [ok |-> TRUE, kind |-> "ok", value |-> v]

\* no Result yet: the call has not returned
Pending == [ok |-> FALSE, kind |-> "pending"]

CallEvent(out) == [ev |-> "call", out |-> out]

SleepEvent(d) == [ev |-> "sleep", secs |-> d]

RetryParked ==
    /\ r_pc = "parked"
    /\ r_max = 0
    /\ r_base = 0
    /\ r_name = None
    /\ r_attempt = 0
    /\ r_last_error = None
    /\ r_log = <<>>
    /\ r_result = Pending

\* a caller is about to call with_retry(max_attempts, base_delay_secs, name, f)
RetryInit ==
    /\ r_pc = "start"
    /\ r_max \in 0..MaxAttemptsBound
    /\ r_base \in 0..MaxBaseDelay
    /\ r_name \in OperationNames
    /\ r_attempt = 0
    /\ r_last_error = None
    /\ r_log = <<>>
    /\ r_result = Pending

\* a faulty variant: the ensure! is missing, the loop is entered whatever max_attempts is
RetryEnter_NoEnsure ==
    /\ r_pc = "start"
    /\ r_pc' = "loop"
    /\ r_attempt' = 1
    /\ r_result' = Pending
    /\ r_last_error' = None
    /\ UNCHANGED <<r_max, r_base, r_name, r_log>>
    /\ UNCHANGED <<guiVars, pipeVars, updVars>>

\* ensure!(max_attempts > 0, ..); let mut last_error = None; for attempt in 1..=max_attempts
RetryEnter ==
    /\ r_pc = "start"
    /\ IF r_max > 0
       THEN /\ r_pc' = "loop"
            /\ r_attempt' = 1
            /\ r_result' = Pending
       ELSE /\ r_pc' = "done"
            /\ r_attempt' = r_attempt
            /\ r_result' = [ok |-> FALSE, kind |-> "ensure"]
    /\ r_last_error' = None
    /\ UNCHANGED <<r_max, r_base, r_name, r_log>>
    /\ UNCHANGED <<guiVars, pipeVars, updVars>>

\* a faulty variant: the success arm does not return, the loop goes on to the next attempt
RetryOnOk_NoReturn(out) ==
    /\ r_log' = Append(r_log, CallEvent(out))
    /\ r_result' = OkResult(out.value)
    /\ r_attempt' = r_attempt + 1
    /\ r_pc' = IF r_attempt < r_max THEN "loop" ELSE "done"
    /\ UNCHANGED r_last_error

\* the loop body after f() returned Ok(value): return Ok(value)
RetryOnOk(out) ==
    /\ r_log' = Append(r_log, CallEvent(out))
    /\ r_result' = OkResult(out.value)
    /\ r_pc' = "done"
    /\ UNCHANGED <<r_attempt, r_last_error>>

\* a faulty variant: only the first error is kept (last_error.get_or_insert(e))
RetryOnErr_KeepFirst(out) ==
    /\ IF r_attempt < r_max
       THEN r_log' = r_log \o <<CallEvent(out), SleepEvent(BackoffDelay(r_base, r_attempt))>>
       ELSE r_log' = Append(r_log, CallEvent(out))
    /\ r_last_error' = IF r_last_error = None THEN out.err ELSE r_last_error
    /\ r_attempt' = r_attempt + 1
    /\ r_pc' = IF r_attempt < r_max THEN "loop" ELSE "after"
    /\ r_result' = r_result

\* the loop body after f() returned Err(e): sleep when attempts remain, keep e
RetryOnErr(out) ==
    /\ IF r_attempt < r_max
       THEN r_log' = r_log \o <<CallEvent(out), SleepEvent(BackoffDelay(r_base, r_attempt))>>
       ELSE r_log' = Append(r_log, CallEvent(out))
    /\ r_last_error' = out.err
    /\ r_attempt' = r_attempt + 1
    /\ r_pc' = IF r_attempt < r_max THEN "loop" ELSE "after"
    /\ r_result' = r_result

\* one iteration of `for attempt in 1..=max_attempts { match f() { .. } }`
RetryAttempt ==
    /\ r_pc = "loop"
    /\ r_attempt <= r_max
    /\ \E out \in Outcomes :
          IF out.ok THEN RetryOnOk(out) ELSE RetryOnErr(out)
    /\ UNCHANGED <<r_max, r_base, r_name>>
    /\ UNCHANGED <<guiVars, pipeVars, updVars>>

\* after the loop: match last_error { Some(err) => Err(err.context(..)), None => bail!(..) }
RetryReturn ==
    /\ r_pc = "after"
    /\ r_result' = IF r_last_error # None
                   THEN WithContext(r_last_error, r_name, r_max)
                   ELSE [ok |-> FALSE, kind |-> "logic"]
    /\ r_pc' = "done"
    /\ UNCHANGED <<r_max, r_base, r_name, r_attempt, r_last_error, r_log>>
    /\ UNCHANGED <<guiVars, pipeVars, updVars>>

RetryNext ==
    \/ RetryEnter
    \/ RetryAttempt
    \/ RetryReturn

\* ---- derived views of the log ----

CallsOf(log) == SelectSeq(log, LAMBDA e : e.ev = "call")

SleepsOf(log) == SelectSeq(log, LAMBDA e : e.ev = "sleep")

FailedCallsOf(log) == SelectSeq(log, LAMBDA e : e.ev = "call" /\ ~e.out.ok)

\* ========================================================================
\* gui.rs: the worker thread, SharedState and the GUI event loop
\* ========================================================================

\* enum FinishState
FinishSuccess == [tag |-> "Success", msg |-> <<>>]

FinishRestarting == [tag |-> "SelfUpdateRestarting", msg |-> <<>>]

FinishJavaNotFound == [tag |-> "JavaNotFound", msg |-> <<>>]

FinishError(m) == [tag |-> "Error", msg |-> m]

\* Option<FinishState>::None
NoFinish == [tag |-> "None", msg |-> <<>>]

\* run_update has not returned
NotReturned == [ok |-> FALSE, kind |-> "running"]

\* the Error the PanicGuard writes
GuardError == FinishError(<<"internal">>)

\* the errors run_update propagates as they are raised: JavaNotFound from
\* find_java, and any other error
RaisedErrors == {[ok |-> FALSE, kind |-> k] : k \in {"JavaNotFound", "Other"}}

\* Result<UpdateResult> as run_update returns it; the errors of sync_modpack
\* come out of with_retry
UpdateResults ==
    {[ok |-> TRUE, kind |-> k] : k \in {"Success", "Offline", "SelfUpdateRestarting"}}
    \cup RaisedErrors
    \cup {WithContext(e, "sync_modpack", RETRY_MAX_ATTEMPTS) : e \in RaisedErrors}

\* a downcast that looks at the outermost layer only
downcast_java_not_found_OuterOnly(e) == e.kind = "JavaNotFound"

RECURSIVE downcast_java_not_found(_)
\* e.downcast_ref::<config::JavaNotFound>().is_some(): anyhow searches the
\* context layers down to the error they were attached to
downcast_java_not_found(e) ==
    IF e.kind = "context" THEN downcast_java_not_found(e.cause)
    ELSE e.kind = "JavaNotFound"

RECURSIVE alternate_format(_)
\* format!("{e:#}"): the messages of the chain, outermost first
alternate_format(e) ==
    IF e.kind = "context" THEN <<e.operation>> \o alternate_format(e.cause)
    ELSE <<e.kind>>

\* a faulty variant: every Ok result, SelfUpdateRestarting too, becomes Success
FinishOf_OkIsSuccess(res) ==
    IF res.ok
    THEN FinishSuccess
    ELSE IF downcast_java_not_found(res) THEN FinishJavaNotFound
    ELSE FinishError(alternate_format(res))

\* s.finish = Some(match result { .. })
FinishOf(res) ==
    IF res.ok
    THEN IF res.kind = "SelfUpdateRestarting" THEN FinishRestarting ELSE FinishSuccess
    ELSE IF downcast_java_not_found(res) THEN FinishJavaNotFound
    ELSE FinishError(alternate_format(res))

GuiParked ==
    /\ w_pc = "parked"
    /\ w_result = NotReturned
    /\ w_progress = 0
    /\ w_posted = <<>>
    /\ guard_completed = FALSE
    /\ s_progress = 0
    /\ s_finish = NoFinish
    /\ notices = 0
    /\ g_pc = "parked"
    /\ g_shown = 0
    /\ g_takes = <<>>
    /\ launch_timer = FALSE
    /\ launched = 0

\* UpdaterApp::run up to thread::spawn and dispatch_thread_events
GuiInit ==
    /\ w_pc = "running"
    /\ w_result = NotReturned
    /\ w_progress = 0
    /\ w_posted = <<>>
    /\ guard_completed = FALSE
    /\ s_progress = 0
    /\ s_finish = NoFinish
    /\ notices = 0
    /\ g_pc = "dispatch"
    /\ g_shown = 0
    /\ g_takes = <<>>
    /\ launch_timer = FALSE
    /\ launched = 0

\* the process lives until the GUI thread leaves main
ProcessAlive == g_pc # "exited"

\* the progress callback: lock, s.progress = progress, unlock
WorkerProgress ==
    /\ ProcessAlive
    /\ w_pc = "running"
    /\ w_progress < MaxProgress
    /\ w_progress' = w_progress + 1
    /\ s_progress' = w_progress + 1
    /\ w_pc' = "prog_notify"
    /\ UNCHANGED <<w_result, w_posted, guard_completed, s_finish, guiThreadVars, retryVars, pipeVars, updVars>>

\* the progress callback: notice_sender.notice()
WorkerProgressNotice ==
    /\ ProcessAlive
    /\ w_pc = "prog_notify"
    /\ notices' = notices + 1
    /\ w_pc' = "running"
    /\ UNCHANGED <<w_result, w_progress, w_posted, guard_completed, sharedVars,
                   g_pc, g_shown, g_takes, launch_timer, launched, retryVars, pipeVars, updVars>>

\* run_update returns
WorkerReturn ==
    /\ ProcessAlive
    /\ w_pc = "running"
    /\ \E res \in UpdateResults : w_result' = res
    /\ w_pc' = "post"
    /\ UNCHANGED <<w_progress, w_posted, guard_completed, sharedVars, guiThreadVars, retryVars, pipeVars, updVars>>

\* run_update panics: the closure unwinds and the guard is dropped, completed = false
WorkerPanic ==
    /\ ProcessAlive
    /\ w_pc = "running"
    /\ w_pc' = "guard_drop"
    /\ UNCHANGED <<w_result, w_progress, w_posted, guard_completed, sharedVars,
                   guiThreadVars, retryVars, pipeVars, updVars>>

\* lock; s.finish = Some(match result {..}); drop(s)
WorkerPostFinish ==
    /\ ProcessAlive
    /\ w_pc = "post"
    /\ s_finish' = FinishOf(w_result)
    /\ w_posted' = Append(w_posted, FinishOf(w_result))
    /\ w_pc' = "finish_notify"
    /\ UNCHANGED <<w_result, w_progress, guard_completed, s_progress, guiThreadVars, retryVars, pipeVars, updVars>>

\* notice_sender.notice() after the finish state was written
WorkerFinishNotice ==
    /\ ProcessAlive
    /\ w_pc = "finish_notify"
    /\ notices' = notices + 1
    /\ w_pc' = "mark_completed"
    /\ UNCHANGED <<w_result, w_progress, w_posted, guard_completed, sharedVars,
                   g_pc, g_shown, g_takes, launch_timer, launched, retryVars, pipeVars, updVars>>

\* guard.completed = true; the closure ends
WorkerMarkCompleted ==
    /\ ProcessAlive
    /\ w_pc = "mark_completed"
    /\ guard_completed' = TRUE
    /\ w_pc' = "guard_drop"
    /\ UNCHANGED <<w_result, w_progress, w_posted, sharedVars, guiThreadVars, retryVars, pipeVars, updVars>>

\* a faulty variant: a guard that writes nothing and sends nothing
GuardDrop_Silent ==
    /\ ProcessAlive
    /\ w_pc = "guard_drop"
    /\ w_pc' = "exited"
    /\ UNCHANGED <<w_result, w_progress, w_posted, guard_completed, sharedVars,
                   guiThreadVars, retryVars, pipeVars, updVars>>

\* impl Drop for PanicGuard: the locked part
GuardDrop ==
    /\ ProcessAlive
    /\ w_pc = "guard_drop"
    /\ IF guard_completed
       THEN /\ w_pc' = "exited"
            /\ UNCHANGED <<s_finish, w_posted>>
       ELSE /\ w_pc' = "guard_notify"
            /\ IF s_finish = NoFinish
               THEN /\ s_finish' = GuardError
                    /\ w_posted' = Append(w_posted, GuardError)
               ELSE UNCHANGED <<s_finish, w_posted>>
    /\ UNCHANGED <<w_result, w_progress, guard_completed, s_progress, guiThreadVars, retryVars, pipeVars, updVars>>

\* impl Drop for PanicGuard: self.sender.notice()
GuardNotice ==
    /\ ProcessAlive
    /\ w_pc = "guard_notify"
    /\ notices' = notices + 1
    /\ w_pc' = "exited"
    /\ UNCHANGED <<w_result, w_progress, w_posted, guard_completed, sharedVars,
                   g_pc, g_shown, g_takes, launch_timer, launched, retryVars, pipeVars, updVars>>

\* a faulty variant: the finish value is cloned and stays in SharedState
TakeFinish_Clone(f) == f

\* what state.finish.take() leaves in SharedState
TakeFinish(f) == NoFinish

\* the event loop may dispatch: running, or stop requested and not yet left
Dispatching == g_pc \in {"dispatch", "stopping"}

\* UpdaterApp::on_progress_update, one notice dispatched
OnProgressUpdate ==
    /\ Dispatching
    /\ notices > 0
    /\ notices' = notices - 1
    /\ s_finish' = TakeFinish(s_finish)
    /\ g_shown' = s_progress
    /\ g_takes' = Append(g_takes, s_finish)
    /\ IF s_finish = NoFinish
       THEN UNCHANGED <<g_pc, launch_timer>>
       ELSE /\ IF s_finish.tag = "Success"
               THEN /\ launch_timer' = TRUE
                    /\ g_pc' = g_pc
               ELSE /\ launch_timer' = launch_timer
                    /\ g_pc' = "stopping"
    /\ UNCHANGED <<workerVars, s_progress, launched, retryVars, pipeVars, updVars>>

\* UpdaterApp::on_launch_timer
OnLaunchTimer ==
    /\ Dispatching
    /\ launch_timer
    /\ launch_timer' = FALSE
    /\ \E pcl2_exists \in BOOLEAN :
          launched' = IF pcl2_exists THEN launched + 1 ELSE launched
    /\ g_pc' = "stopping"
    /\ UNCHANGED <<workerVars, sharedVars, notices, g_shown, g_takes, retryVars, pipeVars, updVars>>

\* UpdaterApp::on_close: the user closes the window
OnClose ==
    /\ g_pc = "dispatch"
    /\ g_pc' = "stopping"
    /\ UNCHANGED <<workerVars, sharedVars, notices, g_shown, g_takes, launch_timer,
                   launched, retryVars, pipeVars, updVars>>

\* dispatch_thread_events returns after stop_thread_dispatch; run and main return
GuiExit ==
    /\ g_pc = "stopping"
    /\ g_pc' = "exited"
    /\ UNCHANGED <<workerVars, sharedVars, notices, g_shown, g_takes, launch_timer,
                   launched, retryVars, pipeVars, updVars>>

GuiNext ==
    \/ WorkerProgress
    \/ WorkerProgressNotice
    \/ WorkerReturn
    \/ WorkerPanic
    \/ WorkerPostFinish
    \/ WorkerFinishNotice
    \/ WorkerMarkCompleted
    \/ GuardDrop
    \/ GuardNotice
    \/ OnProgressUpdate
    \/ OnLaunchTimer
    \/ OnClose
    \/ GuiExit

\* number of calls of f among the first i entries of the log
CallsUpTo(log, i) == Len(CallsOf(SubSeq(log, 1, i)))

\* ========================================================================
\* update.rs: run_update over the files it keeps (version.rs, bootstrap.rs,
\* fabric.rs, packwiz.rs, selfupdate.rs, main.rs)
\* ========================================================================

McVersions == {"1.21.4", "1.21.11"}

FabricVersions == {"0.16.9", "0.18.4"}

BuildIds == {"abc1234", "def5678"}

\* format!("fabric-loader-{}-{}", fabric_version, mc_version)
version_tag(mc, fabric) == <<"fabric-loader", fabric, mc>>

\* RemoteVersion as fetch_remote_version assembles it from server.json and pack.toml
RemoteVersions ==
    [mc_version : McVersions, fabric_version : FabricVersions]
        \ {[mc_version |-> "1.21.11", fabric_version |-> "0.16.9"]}

NoRemote == [mc_version |-> "", fabric_version |-> ""]

\* LocalVersion::default(): every field the empty string
DefaultLocalVersion == [mc_version |-> "", fabric_version |-> "", version_tag |-> <<>>]

\* LocalVersion { mc_version, fabric_version, version_tag } built from the remote
LocalVersionOf(remote) ==
    [mc_version |-> remote.mc_version,
     fabric_version |-> remote.fabric_version,
     version_tag |-> version_tag(remote.mc_version, remote.fabric_version)]

\* contents of a JSON file on disk: missing, not parseable, or a serialized value
NoFile == [state |-> "missing"]

Corrupt == [state |-> "corrupt"]

FileOf(v) == [state |-> "json", value |-> v]

\* a read_local_version whose fallback names the first versions ever served
read_local_version_NamedDefault(d) ==
    IF d.local_json.state = "json"
    THEN d.local_json.value
    ELSE [mc_version |-> "1.21.4", fabric_version |-> "0.16.9",
          version_tag |-> version_tag("1.21.4", "0.16.9")]

\* fs::read_to_string + serde_json::from_str(..).unwrap_or_default()
read_local_version(d) ==
    IF d.local_json.state = "json" THEN d.local_json.value ELSE DefaultLocalVersion

\* a needs_version_upgrade that always asks for the upgrade
needs_version_upgrade_Always(remote, local) == TRUE

\* a needs_version_upgrade that looks at the Minecraft version only
needs_version_upgrade_McOnly(remote, local) == remote.mc_version # local.mc_version

\* remote.mc_version != local.mc_version || remote.fabric_version != local.fabric_version
needs_version_upgrade(remote, local) ==
    remote.mc_version # local.mc_version \/ remote.fabric_version # local.fabric_version

\* ChannelConfig::default(): Stable, no build id
DefaultChannelConfig == [channel |-> "stable", dev_build_id |-> None]

ChannelConfigs ==
    [channel : {"stable", "dev"}, dev_build_id : BuildIds \cup {None}]

read_channel_config(d) ==
    IF d.channel_json.state = "json" THEN d.channel_json.value ELSE DefaultChannelConfig

\* the directories that can stand under .minecraft/versions
VanillaDirs == {<<"vanilla", mc>> : mc \in McVersions}

FabricDirs == {version_tag(r.mc_version, r.fabric_version) : r \in RemoteVersions}

VersionDirs == VanillaDirs \cup FabricDirs

\* a file or directory: "absent", "partial" (exists, content incomplete), "complete"
Exists(f) == f # "absent"

\* the install directory before the first start
FreshDisk ==
    [pcl2 |-> "absent", packwiz_jar |-> "absent", fabric_jar |-> "absent",
     jre |-> "absent", setup_ini |-> "absent", settings_marker |-> FALSE,
     settings_applied |-> FALSE, settings_zip |-> "absent",
     local_json |-> NoFile, channel_json |-> NoFile, exe_new |-> "absent",
     versions |-> [v \in VersionDirs |-> "absent"], mods |-> FALSE]

\* PCL2_EXE, PACKWIZ_BOOTSTRAP_JAR or FABRIC_INSTALLER_JAR does not exist
needs_bootstrap(d) ==
    ~Exists(d.pcl2) \/ ~Exists(d.packwiz_jar) \/ ~Exists(d.fabric_jar)

\* an is_bootstrapped that never finds the launcher
is_bootstrapped_Never(d) == FALSE

\* base_dir.join(PCL2_EXE).exists()
is_bootstrapped(d) == Exists(d.pcl2)

\* what run_update returns
Success == [ok |-> TRUE, kind |-> "Success"]

Offline == [ok |-> TRUE, kind |-> "Offline"]

SelfUpdateRestarting == [ok |-> TRUE, kind |-> "SelfUpdateRestarting"]

JavaNotFound == [ok |-> FALSE, kind |-> "JavaNotFound"]

OtherError == [ok |-> FALSE, kind |-> "Other"]

\* the process ended before run_update returned
Killed == [ok |-> FALSE, kind |-> "killed"]

\* on_progress(Progress::new(p, ..)) for each p of ps, in this order
Report(ps) == p_percent' = IF ps = <<>> THEN p_percent ELSE ps[Len(ps)]

\* run_update called op, which returned res ("Ok", "Err", or the Ok value's name)
Invoke(op, res) == p_events' = Append(p_events, [op |-> op, res |-> res])

\* return res from run_update; the process ends
Return(res) == p_outcome' = res /\ pc' = "idle"

\* the environment lets an operation fail (failed) or not
Env(failed) ==
    /\ failed => p_faults < MaxFaults
    /\ p_faults' = IF failed THEN p_faults + 1 ELSE p_faults

\* a call without the ?: the error is dropped and the next stage runs
Try_GoOn(op, ok, err, d, next, ps) ==
    /\ Env(~ok)
    /\ Invoke(op, IF ok THEN "Ok" ELSE "Err")
    /\ disk' = d
    /\ pc' = next /\ Report(ps) /\ UNCHANGED p_outcome

\* op(..)? for a call that left the files as d: on Ok go on to next and
\* report ps, on Err return the error err
Try(op, ok, err, d, next, ps) ==
    /\ Env(~ok)
    /\ Invoke(op, IF ok THEN "Ok" ELSE "Err")
    /\ disk' = d
    /\ IF ok
       THEN pc' = next /\ Report(ps) /\ UNCHANGED p_outcome
       ELSE Return(err) /\ UNCHANGED p_percent

\* the last entry of the events gets its result
Finish(op, res) ==
    p_events' = [p_events EXCEPT ![Len(p_events)] = [op |-> op, res |-> res]]

runFixed == <<p_run, p_remote, p_served, p_channel, p_disk0>>

pipeFixed == <<runFixed, h_saved>>

PipeParked ==
    /\ pc = "parked"
    /\ p_run = 0
    /\ p_remote = NoRemote
    /\ p_channel = DefaultChannelConfig
    /\ p_served = "valid"
    /\ p_events = <<>>
    /\ p_percent = 0
    /\ p_outcome = NotReturned
    /\ p_disk0 = FreshDisk
    /\ disk = FreshDisk
    /\ h_saved = NoRemote
    /\ p_faults = 0

PipeInit ==
    /\ pc = "idle"
    /\ p_run = 0
    /\ p_remote = NoRemote
    /\ p_channel = DefaultChannelConfig
    /\ p_served = "valid"
    /\ p_events = <<>>
    /\ p_percent = 0
    /\ p_outcome = NotReturned
    /\ p_disk0 = FreshDisk
    /\ disk = FreshDisk
    /\ h_saved = NoRemote
    /\ p_faults = 0

\* ---- main.rs ----

\* server.json and pack.toml as the server hands them out during a run: text
\* that serde_json and parse_pack_toml_versions accept, or not
ServedDocuments == {"valid", "malformed"}

\* what follows --channel on the command line, "none" without the flag
CliChannels == {"none", "stable", "dev", "other"}

\* a resolve_channel that falls back to the default for an unknown value, as
\* its message says
resolve_channel_UnknownIsDefault(cli, d) ==
    LET cfg == read_channel_config(d)
    IN  IF cli \in {"stable", "dev"}
        THEN [channel |-> cli,
              dev_build_id |-> IF cli = "stable" THEN None ELSE cfg.dev_build_id]
        ELSE IF cli = "other" THEN DefaultChannelConfig ELSE cfg

\* the ChannelConfig resolve_channel returns
resolve_channel(cli, d) ==
    LET cfg == read_channel_config(d)
    IN  IF cli \in {"stable", "dev"}
        THEN [channel |-> cli,
              dev_build_id |-> IF cli = "stable" THEN None ELSE cfg.dev_build_id]
        ELSE cfg

\* main: cleanup_old_exe, resolve_channel (save_channel_config may fail, which
\* is only printed), then the worker enters run_update and reports 1
Main ==
    /\ pc = "idle"
    /\ p_run < MaxRuns
    /\ \E remote \in RemoteVersions, served \in ServedDocuments, cli \in CliChannels,
          saved \in BOOLEAN :
        LET cfg == resolve_channel(cli, disk)
            d1 == [disk EXCEPT !.exe_new = "absent"]
            d2 == IF cli \in {"stable", "dev"} /\ saved
                  THEN [d1 EXCEPT !.channel_json = FileOf(cfg)]
                  ELSE d1
        IN  /\ cli \in {"stable", "dev"} \/ saved
            /\ Env(~saved)
            /\ p_remote' = remote
            /\ p_channel' = cfg
            /\ p_served' = served
            /\ disk' = d2
            /\ p_disk0' = d2
            /\ h_saved' = IF h_saved = remote THEN h_saved ELSE NoRemote
    /\ p_run' = p_run + 1
    /\ pc' = "fetch"
    /\ p_events' = <<>>
    /\ p_percent' = 1
    /\ p_outcome' = NotReturned
    /\ UNCHANGED <<retryVars, guiVars, updVars>>

\* the process ends before run_update returns (closed, killed, power loss)
Kill ==
    /\ pc \notin {"idle", "parked"}
    /\ Return(Killed)
    /\ Env(TRUE)
    /\ UNCHANGED <<p_events, p_percent, disk, pipeFixed, retryVars, guiVars, updVars>>

\* ---- update.rs stage 1 ----

\* match version::fetch_remote_version() { Ok(r) => r, Err(e) => .. }: the
\* fetch fails when the server is not reached and when a document it hands
\* out does not parse
FetchRemoteVersion ==
    /\ pc = "fetch"
    /\ \E reached \in BOOLEAN :
        LET ok == reached /\ p_served = "valid"
        IN
        /\ Env(~reached)
        /\ Invoke("fetch_remote_version", IF ok THEN "Ok" ELSE "Err")
        /\ IF ok
           THEN pc' = "selfupdate" /\ UNCHANGED <<p_percent, p_outcome>>
           ELSE IF is_bootstrapped(disk)
                THEN Report(<<100>>) /\ Return(Offline)
                ELSE Return(OtherError) /\ UNCHANGED p_percent
    /\ UNCHANGED <<disk, pipeFixed, retryVars, guiVars, updVars>>

\* ---- selfupdate.rs ----

\* version.json of a channel: whether is_remote_newer(CURRENT_VERSION, version), and build_id
UpdaterInfos == [newer : BOOLEAN, build_id : BuildIds \cup {None}]

\* a needs_update whose dev arm asks for an update as soon as either side has a
\* build id and the two differ
needs_update_AnyDifference(cfg, info) ==
    IF cfg.channel = "stable"
    THEN info.newer
    ELSE info.build_id # cfg.dev_build_id

\* let needs_update = match channel { Stable => .., Dev => .. }
needs_update(cfg, info) ==
    IF cfg.channel = "stable"
    THEN info.newer
    ELSE IF info.build_id # None /\ cfg.dev_build_id # None
         THEN info.build_id # cfg.dev_build_id
         ELSE info.build_id # None

\* check_and_update(base_dir, channel_config, on_progress) on the files d, where
\* fetch_updater_info, the download with its checks, save_channel_config and
\* the spawn of the helper succeed or not
check_and_update(cfg, d, info_ok, info, dl_ok, save_ok, spawn_ok) ==
    LET d_new == [d EXCEPT !.exe_new = "complete"]
        d_gone == [d EXCEPT !.exe_new = "absent"]
        file == [read_channel_config(d) EXCEPT !.dev_build_id = info.build_id]
        d_id == IF cfg.channel = "dev" /\ info.build_id # None /\ save_ok
                THEN [d_new EXCEPT !.channel_json = FileOf(file)]
                ELSE d_new
    IN  IF ~info_ok
        THEN [res |-> "Err", disk |-> d, progress |-> <<1>>]
        ELSE IF ~needs_update(cfg, info)
        THEN [res |-> "UpToDate", disk |-> d, progress |-> <<1>>]
        ELSE IF ~dl_ok
        THEN [res |-> "Err", disk |-> d_gone, progress |-> <<1, 2>>]
        ELSE IF ~spawn_ok
        THEN [res |-> "Err", disk |-> d_id, progress |-> <<1, 2, 10>>]
        ELSE [res |-> "Restarting", disk |-> d_id, progress |-> <<1, 2, 10, 11>>]

Continue == [returns |-> FALSE, value |-> NotReturned]

\* a match whose Err arm returns the error
AfterSelfUpdate_Propagate(res) ==
    IF res = "Restarting" THEN [returns |-> TRUE, value |-> SelfUpdateRestarting]
    ELSE IF res = "Err" THEN [returns |-> TRUE, value |-> OtherError]
    ELSE Continue

\* a match whose Restarting arm goes on like UpToDate
AfterSelfUpdate_FallThrough(res) == Continue

\* match check_and_update(..) { Ok(Restarting) => return Ok(SelfUpdateRestarting),
\*                              Ok(UpToDate) => {}, Err(e) => { log } }
AfterSelfUpdate(res) ==
    IF res = "Restarting"
    THEN [returns |-> TRUE, value |-> SelfUpdateRestarting]
    ELSE Continue

SelfUpdateStage ==
    /\ pc = "selfupdate"
    /\ \E info_ok, dl_ok, save_ok, spawn_ok \in BOOLEAN, info \in UpdaterInfos :
        LET r == check_and_update(p_channel, disk, info_ok, info, dl_ok, save_ok, spawn_ok)
            after == AfterSelfUpdate(r.res)
            save_failed == /\ ~save_ok /\ info_ok /\ dl_ok
                           /\ needs_update(p_channel, info)
                           /\ p_channel.channel = "dev" /\ info.build_id # None
        IN  /\ Env(r.res = "Err" \/ save_failed)
            /\ Invoke("check_and_update", r.res)
            /\ disk' = r.disk
            /\ Report(r.progress)
            /\ IF after.returns
               THEN Return(after.value)
               ELSE pc' = "bootstrap" /\ UNCHANGED p_outcome
    /\ UNCHANGED <<pipeFixed, retryVars, guiVars, updVars>>

\* ---- bootstrap.rs ----

\* how a download ends: all bytes written, no response, or the stream breaks
\* after File::create(dest)
DownloadOutcomes == {"ok", "no_connection", "interrupted"}

\* download_file(url, dest, ..): the state of dest afterwards
download_file(out, before) ==
    IF out = "ok" THEN "complete"
    ELSE IF out = "interrupted" THEN "partial"
    ELSE before

\* run_bootstrap returned Err, which run_update returns
BsFail == Finish("run_bootstrap", "Err") /\ Return(OtherError) /\ Env(TRUE)

\* run_bootstrap goes on to its next block
BsNext(next) == pc' = next /\ UNCHANGED <<p_events, p_outcome, p_faults>>

\* if needs_bootstrap { on_progress(2); run_bootstrap(..)? } else { on_progress(50) }
BootstrapStage ==
    /\ pc = "bootstrap"
    /\ IF needs_bootstrap(disk)
       THEN /\ Report(<<2>>)
            /\ Invoke("run_bootstrap", "Running")
            /\ pc' = "bs_jre"
       ELSE /\ Report(<<50>>)
            /\ pc' = "version_check"
            /\ UNCHANGED p_events
    /\ UNCHANGED <<p_outcome, disk, pipeFixed, p_faults, retryVars, guiVars, updVars>>

\* the directory structure, then the JRE block
BsJre ==
    /\ pc = "bs_jre"
    /\ \E dirs_ok \in BOOLEAN,
          out \in {"ok", "download_failed", "extract_failed", "extract_partial"} :
        IF ~dirs_ok
        THEN Report(<<2>>) /\ BsFail /\ UNCHANGED disk
        ELSE IF Exists(disk.jre)
        THEN Report(<<2, 30>>) /\ BsNext("bs_pcl2") /\ UNCHANGED disk
        ELSE IF out = "ok"
        THEN /\ disk' = [disk EXCEPT !.jre = "complete"]
             /\ Report(<<2, 5, 28, 30>>)
             /\ BsNext("bs_pcl2")
        ELSE IF out = "download_failed"
        THEN Report(<<2, 5>>) /\ BsFail /\ UNCHANGED disk
        ELSE /\ disk' = [disk EXCEPT !.jre = IF out = "extract_partial"
                                             THEN "partial" ELSE "absent"]
             /\ Report(<<2, 5, 28>>)
             /\ BsFail
    /\ UNCHANGED <<pipeFixed, retryVars, guiVars, updVars>>

\* a block "if !dest.exists() { url?; on_progress(p0); download_file(..)? } on_progress(p1)"
BsDownload(field, url_required, p0, p1, next) ==
    IF Exists(disk[field])
    THEN Report(<<p1>>) /\ BsNext(next) /\ UNCHANGED disk
    ELSE \E out \in DownloadOutcomes \cup (IF url_required THEN {"no_url"} ELSE {}) :
            /\ disk' = [disk EXCEPT ![field] = download_file(out, @)]
            /\ IF out = "ok"
               THEN Report(<<p0, p1>>) /\ BsNext(next)
               ELSE Report(IF out = "no_url" THEN <<>> ELSE <<p0>>) /\ BsFail

BsPcl2 ==
    /\ pc = "bs_pcl2"
    /\ BsDownload("pcl2", TRUE, 31, 38, "bs_packwiz")
    /\ UNCHANGED <<pipeFixed, retryVars, guiVars, updVars>>

BsPackwiz ==
    /\ pc = "bs_packwiz"
    /\ BsDownload("packwiz_jar", FALSE, 39, 42, "bs_fabric")
    /\ UNCHANGED <<pipeFixed, retryVars, guiVars, updVars>>

BsFabricJar ==
    /\ pc = "bs_fabric"
    /\ BsDownload("fabric_jar", TRUE, 43, 46, "bs_setup")
    /\ UNCHANGED <<pipeFixed, retryVars, guiVars, updVars>>

\* if !setup_ini.exists() { on_progress(47); fs::write(..)? }
BsSetupIni ==
    /\ pc = "bs_setup"
    /\ IF Exists(disk.setup_ini)
       THEN BsNext("bs_settings") /\ UNCHANGED <<disk, p_percent>>
       ELSE \E after \in {"complete", "partial", "absent"} :
               /\ disk' = [disk EXCEPT !.setup_ini = after]
               /\ Report(<<47>>)
               /\ IF after = "complete" THEN BsNext("bs_settings") ELSE BsFail
    /\ UNCHANGED <<pipeFixed, retryVars, guiVars, updVars>>

\* the settings package, guarded by updater/.settings_installed, then
\* on_progress(50); updater/settings-download.zip is removed after a successful
\* extraction only
BsSettings ==
    /\ pc = "bs_settings"
    /\ IF disk.settings_marker
       THEN /\ Report(<<50>>)
            /\ Finish("run_bootstrap", "Ok")
            /\ pc' = "version_check"
            /\ UNCHANGED <<disk, p_outcome, p_faults>>
       ELSE \E settings_url \in BOOLEAN,
               out \in {"ok", "download_failed", "extract_failed", "marker_failed"} :
               LET applied == settings_url /\ out \in {"ok", "marker_failed"}
                   d1 == [disk EXCEPT !.settings_applied = @ \/ applied,
                                      !.settings_zip = IF ~settings_url THEN @
                                                       ELSE IF applied THEN "absent"
                                                       ELSE IF out = "extract_failed"
                                                       THEN "complete" ELSE "partial"]
               IN  IF out = "ok" \/ (~settings_url /\ out # "marker_failed")
                   THEN /\ disk' = [d1 EXCEPT !.settings_marker = TRUE]
                        /\ Report(IF settings_url THEN <<48, 49, 50>> ELSE <<50>>)
                        /\ Finish("run_bootstrap", "Ok")
                        /\ pc' = "version_check"
                        /\ UNCHANGED <<p_outcome, p_faults>>
                   ELSE /\ disk' = d1
                        /\ Report(IF ~settings_url THEN <<>>
                                  ELSE IF out = "download_failed" THEN <<48>>
                                  ELSE <<48, 49>>)
                        /\ BsFail
    /\ UNCHANGED <<pipeFixed, retryVars, guiVars, updVars>>

\* ---- update.rs stage 2: version check and upgrade ----

\* let local = read_local_version(..); on_progress(55); if needs_version_upgrade(..)
VersionCheck ==
    /\ pc = "version_check"
    /\ IF needs_version_upgrade(p_remote, read_local_version(disk))
       THEN Report(<<55, 58, 60>>) /\ pc' = "install_fabric"
       ELSE Report(<<55, 78, 79>>) /\ pc' = "ensure_vanilla"
    /\ UNCHANGED <<p_events, p_outcome, disk, pipeFixed, p_faults, retryVars, guiVars, updVars>>

VanillaDir(mc) == <<"vanilla", mc>>

\* download_vanilla_version(mc_dir, mc_version): skipped when json and jar
\* exist; the jar is streamed into its final path
download_vanilla_version(d, mc, out) ==
    IF Exists(d.versions[VanillaDir(mc)])
    THEN [ok |-> TRUE, disk |-> d]
    ELSE [ok |-> out = "ok",
          disk |-> [d EXCEPT !.versions[VanillaDir(mc)] = download_file(out, @)]]

\* install_fabric(base_dir, mc_version, fabric_version) on the files d
install_fabric(d, remote, java, vanilla, installer) ==
    LET van == download_vanilla_version(d, remote.mc_version, vanilla)
        tag == version_tag(remote.mc_version, remote.fabric_version)
        runs == d.fabric_jar = "complete" /\ installer = "ok"
        d_inst == [van.disk EXCEPT !.versions[tag] =
                      IF runs THEN "complete"
                      ELSE IF installer = "interrupted" /\ @ = "absent" THEN "partial"
                      ELSE @]
    IN  IF ~java THEN [ok |-> FALSE, err |-> JavaNotFound, disk |-> d]
        ELSE IF ~Exists(d.fabric_jar) THEN [ok |-> FALSE, err |-> OtherError, disk |-> d]
        ELSE IF ~van.ok THEN [ok |-> FALSE, err |-> OtherError, disk |-> van.disk]
        ELSE [ok |-> runs, err |-> OtherError, disk |-> d_inst]

\* an install_fabric stage without the ? on its result
InstallFabric_IgnoreError ==
    /\ pc = "install_fabric"
    /\ \E java \in BOOLEAN, vanilla, installer \in DownloadOutcomes :
        LET r == install_fabric(disk, p_remote, java, vanilla, installer)
        IN  Try("install_fabric", r.ok, r.err, r.disk, "cleanup", <<70>>)
           \/ (/\ ~r.ok
               /\ Env(TRUE)
               /\ Invoke("install_fabric", "Err")
               /\ disk' = r.disk
               /\ pc' = "cleanup"
               /\ Report(<<70>>)
               /\ UNCHANGED p_outcome)
    /\ UNCHANGED <<pipeFixed, retryVars, guiVars, updVars>>

\* fabric::install_fabric(..)?; on_progress(70)
InstallFabric ==
    /\ pc = "install_fabric"
    /\ \E java \in BOOLEAN, vanilla, installer \in DownloadOutcomes :
        LET r == install_fabric(disk, p_remote, java, vanilla, installer)
        IN  Try("install_fabric", r.ok, r.err, r.disk, "cleanup", <<70>>)
    /\ UNCHANGED <<pipeFixed, retryVars, guiVars, updVars>>

\* the directories cleanup_old_versions(base_dir, keep_tag) is to remove
OldVersions(d, keep_tag) == {v \in VersionDirs : v # keep_tag /\ Exists(d.versions[v])}

\* fabric::cleanup_old_versions(..)?; on_progress(75): every directory but
\* keep_tag is removed, or an error ends the loop with some of them removed
CleanupOldVersions ==
    /\ pc = "cleanup"
    /\ LET tag == version_tag(p_remote.mc_version, p_remote.fabric_version)
           old == OldVersions(disk, tag)
       IN  \E ok \in BOOLEAN, removed \in SUBSET old :
            /\ ok => removed = old
            /\ Try("cleanup_old_versions", ok, OtherError,
                   [disk EXCEPT !.versions = [v \in VersionDirs |->
                                    IF v \in removed THEN "absent" ELSE @[v]]],
                   "clean_mods", <<>>)
    /\ UNCHANGED <<pipeFixed, retryVars, guiVars, updVars>>

\* fabric::clean_mods_dir(..)?: the .jar files of mods/ are removed
CleanModsDir ==
    /\ pc = "clean_mods"
    /\ \E ok \in BOOLEAN :
        Try("clean_mods_dir", ok, OtherError,
            IF ok THEN [disk EXCEPT !.mods = FALSE] ELSE disk, "save_local", <<>>)
    /\ UNCHANGED <<pipeFixed, retryVars, guiVars, updVars>>

\* save_local_version(base_dir, version): the state of local.json afterwards
save_local_version(out, version, before) ==
    IF out = "ok" THEN FileOf(version)
    ELSE IF out = "interrupted" THEN Corrupt
    ELSE before

\* version::save_local_version(base_dir, &new_local)?; on_progress(78); on_progress(79)
SaveLocalVersion ==
    /\ pc = "save_local"
    /\ \E out \in {"ok", "failed", "interrupted"} :
        /\ Try("save_local_version", out = "ok", OtherError,
               [disk EXCEPT !.local_json =
                    save_local_version(out, LocalVersionOf(p_remote), @)],
               "ensure_vanilla", <<78, 79>>)
        /\ h_saved' = IF out = "ok" THEN p_remote ELSE h_saved
    /\ UNCHANGED <<runFixed, retryVars, guiVars, updVars>>

\* ---- update.rs stages 3 and 4 ----

\* fabric::ensure_vanilla_client(..)?; on_progress(79)
EnsureVanillaClient ==
    /\ pc = "ensure_vanilla"
    /\ \E out \in DownloadOutcomes :
        LET r == download_vanilla_version(disk, p_remote.mc_version, out)
        IN  Try("ensure_vanilla_client", r.ok, OtherError, r.disk, "fix_isolation", <<79>>)
    /\ UNCHANGED <<pipeFixed, retryVars, guiVars, updVars>>

\* fabric::fix_version_isolation(..)?; on_progress(80): versions/<tag>/PCL/Setup.ini
\* is created together with its directories when missing
FixVersionIsolation ==
    /\ pc = "fix_isolation"
    /\ LET tag == version_tag(p_remote.mc_version, p_remote.fabric_version)
       IN  \E ok \in BOOLEAN :
            Try("fix_version_isolation", ok, OtherError,
                IF ok /\ ~Exists(disk.versions[tag])
                THEN [disk EXCEPT !.versions[tag] = "partial"]
                ELSE disk,
                "sync", <<80>>)
    /\ UNCHANGED <<pipeFixed, retryVars, guiVars, updVars>>

\* packwiz::sync_modpack(..)?; on_progress(95); on_progress(100); Ok(Success)
SyncModpack ==
    /\ pc = "sync"
    /\ \E java, ok \in BOOLEAN :
        /\ Env(~(java /\ ok))
        /\ Invoke("sync_modpack", IF java /\ ok THEN "Ok" ELSE "Err")
        /\ IF java /\ ok
           THEN /\ disk' = [disk EXCEPT !.mods = TRUE]
                /\ Report(<<95, 100>>)
                /\ Return(Success)
           ELSE /\ Return(WithContext(IF java THEN OtherError ELSE JavaNotFound,
                                      "sync_modpack", RETRY_MAX_ATTEMPTS))
                /\ UNCHANGED <<disk, p_percent>>
    /\ UNCHANGED <<pipeFixed, retryVars, guiVars, updVars>>

PipeNext ==
    \/ Main
    \/ Kill
    \/ FetchRemoteVersion
    \/ SelfUpdateStage
    \/ BootstrapStage
    \/ BsJre
    \/ BsPcl2
    \/ BsPackwiz
    \/ BsFabricJar
    \/ BsSetupIni
    \/ BsSettings
    \/ VersionCheck
    \/ InstallFabric
    \/ CleanupOldVersions
    \/ CleanModsDir
    \/ SaveLocalVersion
    \/ EnsureVanillaClient
    \/ FixVersionIsolation
    \/ SyncModpack

\* ========================================================================
\* selfupdate.rs (upmc): parse_semver and is_remote_newer
\* A version string is a sequence of characters, one character an element.
\* ========================================================================

\* the characters a version string of the model is typed from
VersionChars == {"0", "2", ".", " ", "x"}

\* char::is_ascii_digit
IsDigit(c) == c \in {"0", "1", "2", "3", "4", "5", "6", "7", "8", "9"}

\* char::to_digit(10) of an ASCII digit
DigitValue(c) ==
    CASE c = "0" -> 0 [] c = "1" -> 1 [] c = "2" -> 2 [] c = "3" -> 3
      [] c = "4" -> 4 [] c = "5" -> 5 [] c = "6" -> 6 [] c = "7" -> 7
      [] c = "8" -> 8 [] c = "9" -> 9

\* char::is_whitespace, of which the model types the space only
IsSpace(c) == c = " "

RECURSIVE trim_start(_)
trim_start(s) == IF s # <<>> /\ IsSpace(Head(s)) THEN trim_start(Tail(s)) ELSE s

RECURSIVE trim_end(_)
trim_end(s) ==
    IF s # <<>> /\ IsSpace(s[Len(s)]) THEN trim_end(SubSeq(s, 1, Len(s) - 1)) ELSE s

\* str::trim
trim(s) == trim_end(trim_start(s))

\* str::split('.').collect(): the pieces between the dots, empty ones included
RECURSIVE split_dot(_)
split_dot(s) ==
    IF \A i \in 1..Len(s) : s[i] # "."
    THEN <<s>>
    ELSE LET i == CHOOSE k \in 1..Len(s) : s[k] = "." /\ \A j \in 1..(k - 1) : s[j] # "."
         IN  <<SubSeq(s, 1, i - 1)>> \o split_dot(SubSeq(s, i + 1, Len(s)))

\* the value of a run of decimal digits
RECURSIVE digits_value(_)
digits_value(s) ==
    IF s = <<>> THEN 0
    ELSE 10 * digits_value(SubSeq(s, 1, Len(s) - 1)) + DigitValue(s[Len(s)])

\* Option::None of a parse
NoNumber == [some |-> FALSE, value |-> 0]

\* str::parse::<u64>().ok(): an optional '+', then one or more ASCII digits and
\* nothing else (a value beyond u64::MAX needs 20 digits, more than MaxVersionLen)
parse_u64(s) ==
    LET body == IF s # <<>> /\ Head(s) = "+" THEN Tail(s) ELSE s
    IN  IF body # <<>> /\ \A i \in 1..Len(body) : IsDigit(body[i])
        THEN [some |-> TRUE, value |-> digits_value(body)]
        ELSE NoNumber

NoTriple == [some |-> FALSE, value |-> <<0, 0, 0>>]

\* fn parse_semver(version: &str) -> Option<(u64, u64, u64)>
parse_semver(version) ==
    LET parts == split_dot(trim(version))
    IN  IF Len(parts) # 3
        THEN NoTriple
        ELSE LET major == parse_u64(parts[1])
                 minor == parse_u64(parts[2])
                 patch == parse_u64(parts[3])
             IN  IF major.some /\ minor.some /\ patch.some
                 THEN [some |-> TRUE, value |-> <<major.value, minor.value, patch.value>>]
                 ELSE NoTriple

\* rem > cur on (u64, u64, u64): the derived lexicographic order of tuples
tuple_gt(rem, cur) ==
    \/ rem[1] > cur[1]
    \/ rem[1] = cur[1] /\ rem[2] > cur[2]
    \/ rem[1] = cur[1] /\ rem[2] = cur[2] /\ rem[3] > cur[3]

\* an is_remote_newer that compares with >=
is_remote_newer_NotOlder(current, remote) ==
    LET cur == parse_semver(current)
        rem == parse_semver(remote)
    IN  cur.some /\ rem.some /\ ~tuple_gt(cur.value, rem.value)

\* fn is_remote_newer(current: &str, remote: &str) -> bool
is_remote_newer(current, remote) ==
    LET cur == parse_semver(current)
        rem == parse_semver(remote)
    IN  cur.some /\ rem.some /\ tuple_gt(rem.value, cur.value)

\* the values of `current` a call of the model starts from
SemverCurrents ==
    {<<"0", ".", "2", ".", "0">>,
     <<"0", ".", "1", "0", ".", "0">>,
     <<" ", "+", "2", ".", "0", ".", "0">>,
     <<"0", ".", "2", ".", "0", ".", "0">>,
     <<"2", ".", "x", ".", "0">>}

\* is_remote_newer has not returned
NotCalled == [returned |-> FALSE, value |-> FALSE]

SemverParked ==
    /\ sv_pc = "parked"
    /\ sv_current = <<>>
    /\ sv_remote = <<>>
    /\ sv_result = NotCalled

\* a caller is about to pass a `remote` it is still receiving
SemverInit ==
    /\ sv_pc = "typing"
    /\ sv_current \in SemverCurrents
    /\ sv_remote = <<>>
    /\ sv_result = NotCalled

\* one more character of the version field of the remote document
SemverType ==
    /\ sv_pc = "typing"
    /\ Len(sv_remote) < MaxVersionLen
    /\ \E c \in VersionChars : sv_remote' = Append(sv_remote, c)
    /\ UNCHANGED <<sv_pc, sv_current, sv_result>>
    /\ UNCHANGED <<retryVars, guiVars, pipeVars, suVars, helperVars, sideVars>>

\* is_remote_newer(current, remote)
SemverCall ==
    /\ sv_pc = "typing"
    /\ sv_result' = [returned |-> TRUE, value |-> is_remote_newer(sv_current, sv_remote)]
    /\ sv_pc' = "called"
    /\ UNCHANGED <<sv_current, sv_remote>>
    /\ UNCHANGED <<retryVars, guiVars, pipeVars, suVars, helperVars, sideVars>>

SemverNext == SemverType \/ SemverCall

\* ========================================================================
\* selfupdate.rs: check_and_update step by step, the helper it schedules and
\* the executable that gets relaunched.  Two revisions are in the source:
\*   "helper"  upmc/src/selfupdate.rs, replacement by a PowerShell helper
\*   "rename"  updater-rs/src/selfupdate.rs, replacement by renaming in-process
\* Deleting a file succeeds; writes, downloads and spawns may fail.
\* ========================================================================

\* env!("CARGO_PKG_VERSION") of the executable installed before any update
CURRENT_VERSION == <<"0", ".", "3", ".", "4">>

\* the `version` field of the remote document: the installed one, a newer one,
\* one that does not parse
RemoteVersionStrings ==
    {<<"0", ".", "3", ".", "4">>, <<"0", ".", "3", ".", "5">>, <<"b", "a", "d">>}

\* UpdaterVersionInfo { version, build_id } of the upmc revision, and the
\* updater_version (a SHA256) that server.json carries in the updater-rs revision
UpdaterDocs ==
    [version : RemoteVersionStrings, build_id : BuildIds \cup {None},
     sha256 : {None, "sha_new"}]

\* the executable, exe.new and exe.old beside it, and channel.json
InstalledDisk ==
    [exe |-> "old", exe_new |-> "absent", exe_old |-> "absent",
     channel_json |-> NoFile]

\* the version compiled into the executable with this content
VersionOf(content, info) == IF content = "new" THEN info.version ELSE CURRENT_VERSION

\* a cleanup_old_exe that removes exe.old only
cleanup_old_exe_LegacyOnly(rev, d) == [d EXCEPT !.exe_old = "absent"]

\* pub fn cleanup_old_exe(): the upmc revision removes exe.new and exe.old,
\* the updater-rs revision exe.old only
cleanup_old_exe(rev, d) ==
    IF rev = "helper"
    THEN [d EXCEPT !.exe_new = "absent", !.exe_old = "absent"]
    ELSE [d EXCEPT !.exe_old = "absent"]

\* what is_remote_newer and the build id of a document mean to needs_update
DocView(version, info) ==
    [newer |-> is_remote_newer(version, info.version), build_id |-> info.build_id]

SuParked ==
    /\ u_rev = "parked"
    /\ u_gen = 0
    /\ u_pc = "parked"
    /\ u_alive = FALSE
    /\ u_cfg = DefaultChannelConfig
    /\ u_info = [version |-> <<>>, build_id |-> None, sha256 |-> None]
    /\ u_version = <<>>
    /\ u_attempt = 0
    /\ u_dl = <<>>
    /\ u_percent = 0
    /\ u_result = "none"
    /\ u_results = <<>>
    /\ u_disk = InstalledDisk
    /\ u_disk0 = InstalledDisk
    /\ u_writers = {}

HelperParked ==
    /\ hp_pc = "none"
    /\ hp_wait = None
    /\ hp_copies = <<>>
    /\ hp_ok = FALSE
    /\ hp_starts = 0
    /\ hp_runs = 0

\* the user starts the installed updater; a stale exe.new may lie beside it and
\* channel.json holds whatever earlier runs left
SuInit ==
    /\ u_rev \in {"helper", "rename"}
    /\ u_gen = 1
    /\ u_pc = "startup"
    /\ u_alive = TRUE
    /\ u_cfg = DefaultChannelConfig
    /\ u_info \in UpdaterDocs
    /\ IF u_rev = "helper"
       THEN u_info.sha256 = None
       ELSE u_info.build_id = None /\ u_info.version = CURRENT_VERSION
    /\ u_version = CURRENT_VERSION
    /\ u_attempt = 0
    /\ u_dl = <<>>
    /\ u_percent = 0
    /\ u_result = "none"
    /\ u_results = <<>>
    /\ \E stale \in {"absent", "stale"}, legacy \in {"absent", "old"},
          file \in {NoFile} \cup {FileOf(c) : c \in ChannelConfigs} :
          /\ u_rev = "rename" => file = NoFile /\ legacy = "absent"
          /\ u_disk = [InstalledDisk EXCEPT !.exe_new = stale, !.exe_old = legacy,
                                            !.channel_json = file]
    /\ u_disk0 = u_disk
    /\ u_writers = {}
    /\ HelperParked

\* check_and_update returns res to run_update
SuReturn(res) ==
    /\ u_result' = res
    /\ u_results' = Append(u_results, res)
    /\ u_pc' = "returned"

\* a process is started from the final executable path
StartProcess(d) ==
    /\ u_gen' = u_gen + 1
    /\ u_pc' = IF u_gen < MaxGen THEN "startup" ELSE "untracked"
    /\ u_alive' = TRUE
    /\ u_version' = VersionOf(d.exe, u_info)
    /\ u_attempt' = 0
    /\ u_dl' = <<>>
    /\ u_percent' = 0
    /\ u_result' = "none"

\* main: cleanup_old_exe, resolve_channel (a failed save_channel_config is only
\* printed), then the worker reaches check_and_update; the helper relaunches
\* the executable without arguments
SuMain ==
    /\ u_pc = "startup"
    /\ \E cli \in (IF u_gen = 1 THEN CliChannels ELSE {"none"}), saved \in BOOLEAN :
        LET d1 == cleanup_old_exe(u_rev, u_disk)
            cfg == resolve_channel(cli, d1)
            d2 == IF cli \in {"stable", "dev"} /\ saved
                  THEN [d1 EXCEPT !.channel_json = FileOf(cfg)]
                  ELSE d1
        IN  /\ cli \in {"stable", "dev"} \/ saved
            /\ u_rev = "rename" => cli \notin {"stable", "dev"}
            /\ u_cfg' = cfg
            /\ u_disk' = d2
            /\ u_disk0' = d2
    /\ u_pc' = "check"
    /\ UNCHANGED <<u_rev, u_gen, u_alive, u_info, u_version, u_attempt, u_dl, u_percent,
                   u_result, u_results, u_writers, helperVars>>
    /\ UNCHANGED <<retryVars, guiVars, pipeVars, semverVars, sideVars>>

\* ---- upmc/src/selfupdate.rs ----

\* check_and_update up to the removal of a stale temp file: fetch_updater_info,
\* needs_update, current_exe_path
SuCheck ==
    /\ u_rev = "helper"
    /\ u_pc = "check"
    /\ \E info_ok, path_ok \in BOOLEAN :
        IF ~info_ok
        THEN /\ SuReturn("Err")
             /\ u_percent' = 1
             /\ UNCHANGED <<u_attempt, u_disk>>
        ELSE IF ~needs_update(u_cfg, DocView(u_version, u_info))
        THEN /\ SuReturn("UpToDate")
             /\ u_percent' = 1
             /\ UNCHANGED <<u_attempt, u_disk>>
        ELSE IF ~path_ok
        THEN /\ SuReturn("Err")
             /\ u_percent' = 2
             /\ UNCHANGED <<u_attempt, u_disk>>
        ELSE /\ u_pc' = "download"
             /\ u_attempt' = 1
             /\ u_percent' = 2
             /\ u_disk' = [u_disk EXCEPT !.exe_new = "absent"]
             /\ UNCHANGED <<u_result, u_results>>
    /\ UNCHANGED <<u_rev, u_gen, u_alive, u_cfg, u_info, u_version, u_dl, u_disk0,
                   u_writers, helperVars>>
    /\ UNCHANGED <<retryVars, guiVars, pipeVars, semverVars, sideVars>>

\* how one download of the executable ends: no response (or the temp file cannot
\* be created), the stream breaks, zero bytes, bytes that do not start with MZ,
\* or a file that passes the checks
DownloadResults == {"no_response", "interrupted", "empty", "bad_magic", "verified"}

\* the temp file after one download that ended as out
TempAfter(out, before) ==
    CASE out = "no_response" -> before
      [] out = "interrupted" -> "partial"
      [] out = "empty" -> "empty"
      [] out = "bad_magic" -> "garbage"
      [] out = "verified" -> "new"

\* a failed download that leaves the temp file where it is
AfterFailedDownload_Keep(d) == d

\* if let Err(e) = with_retry(..) { let _ = fs::remove_file(&temp_path); return Err(e) }
AfterFailedDownload(d) == [d EXCEPT !.exe_new = "absent"]

\* one attempt of with_retry(RETRY_MAX_ATTEMPTS, .., download_and_verify)
SuDownload ==
    /\ u_rev = "helper"
    /\ u_pc = "download"
    /\ \E out \in DownloadResults :
        LET d1 == [u_disk EXCEPT !.exe_new = TempAfter(out, u_disk.exe_new)]
        IN  /\ u_dl' = Append(u_dl, out)
            /\ IF out = "verified"
               THEN /\ u_pc' = "persist"
                    /\ u_percent' = 10
                    /\ u_disk' = d1
                    /\ UNCHANGED <<u_attempt, u_result, u_results>>
               ELSE IF u_attempt < RETRY_MAX_ATTEMPTS
               THEN /\ u_attempt' = u_attempt + 1
                    /\ u_disk' = d1
                    /\ UNCHANGED <<u_pc, u_percent, u_result, u_results>>
               ELSE /\ SuReturn("Err")
                    /\ u_disk' = AfterFailedDownload(d1)
                    /\ UNCHANGED <<u_attempt, u_percent>>
    /\ UNCHANGED <<u_rev, u_gen, u_alive, u_cfg, u_info, u_version, u_disk0,
                   u_writers, helperVars>>
    /\ UNCHANGED <<retryVars, guiVars, pipeVars, semverVars, sideVars>>

\* if channel == Dev { if let Some(id) = info.build_id { read_channel_config;
\* cfg.dev_build_id = Some(id); save_channel_config (a failure is only printed) } }
SuPersist ==
    /\ u_rev = "helper"
    /\ u_pc = "persist"
    /\ \E save_ok \in BOOLEAN :
        LET file == [read_channel_config(u_disk) EXCEPT !.dev_build_id = u_info.build_id]
        IN  IF u_cfg.channel = "dev" /\ u_info.build_id # None
            THEN u_disk' = IF save_ok
                           THEN [u_disk EXCEPT !.channel_json = FileOf(file)]
                           ELSE u_disk
            ELSE save_ok /\ UNCHANGED u_disk   \* nothing is saved: one step
    /\ u_pc' = "spawn"
    /\ UNCHANGED <<u_rev, u_gen, u_alive, u_cfg, u_info, u_version, u_attempt, u_dl,
                   u_percent, u_result, u_results, u_disk0, u_writers, helperVars>>
    /\ UNCHANGED <<retryVars, guiVars, pipeVars, semverVars, sideVars>>

\* Command::new("powershell")..spawn().context(..)?; report 11; Ok(Restarting)
SuSpawn ==
    /\ u_rev = "helper"
    /\ u_pc = "spawn"
    /\ \E spawn_ok \in BOOLEAN :
        IF spawn_ok
        THEN /\ SuReturn("Restarting")
             /\ u_percent' = 11
             /\ hp_pc' = "wait"
             /\ hp_wait' = None
             /\ hp_copies' = <<>>
             /\ hp_ok' = FALSE
             /\ hp_starts' = 0
             /\ hp_runs' = hp_runs + 1
        ELSE /\ SuReturn("Err")
             /\ UNCHANGED <<u_percent, helperVars>>
    /\ UNCHANGED <<u_rev, u_gen, u_alive, u_cfg, u_info, u_version, u_attempt, u_dl,
                   u_disk, u_disk0, u_writers>>
    /\ UNCHANGED <<retryVars, guiVars, pipeVars, semverVars, sideVars>>

\* the process whose check_and_update has returned exits
SuExit ==
    /\ u_pc = "returned"
    /\ u_alive
    /\ u_alive' = FALSE
    /\ UNCHANGED <<u_rev, u_gen, u_pc, u_cfg, u_info, u_version, u_attempt, u_dl,
                   u_percent, u_result, u_results, u_disk, u_disk0, u_writers, helperVars>>
    /\ UNCHANGED <<retryVars, guiVars, pipeVars, semverVars, sideVars>>

\* ---- the PowerShell script of upmc/src/selfupdate.rs ----

\* $p.WaitForExit(30000) returns because the updater process has exited (or
\* Get-Process no longer finds it), then Start-Sleep -Milliseconds 500
HelperWaitExited ==
    /\ hp_pc = "wait"
    /\ ~u_alive
    /\ hp_wait' = "exited"
    /\ hp_pc' = "copy"
    /\ UNCHANGED <<hp_copies, hp_ok, hp_starts, hp_runs, suVars>>
    /\ UNCHANGED <<retryVars, guiVars, pipeVars, semverVars, sideVars>>

\* $p.WaitForExit(30000) returns after 30 s with the updater process still
\* alive, then Start-Sleep -Milliseconds 500
HelperWaitTimeout ==
    /\ hp_pc = "wait"
    /\ u_alive
    /\ hp_wait' = "timeout"
    /\ hp_pc' = "copy"
    /\ UNCHANGED <<hp_copies, hp_ok, hp_starts, hp_runs, suVars>>
    /\ UNCHANGED <<retryVars, guiVars, pipeVars, semverVars, sideVars>>

\* a loop that goes on after a Copy-Item that worked
AfterCopy_NoBreak(ok, made) == IF made < HELPER_COPY_ATTEMPTS THEN "copy" ELSE "cleanup"

\* for($i=0;$i -lt 3;$i++) { try { Copy-Item ..; $ok=$true; break } catch { Start-Sleep 1 } }:
\* where the script stands after the made-th Copy-Item
AfterCopy(ok, made) ==
    IF ok \/ made >= HELPER_COPY_ATTEMPTS THEN "cleanup" ELSE "copy"

\* one Copy-Item -Path exe.new -Destination exe -Force; it throws when the
\* source is missing or a file is locked
HelperCopy ==
    /\ hp_pc = "copy"
    /\ \E ok \in BOOLEAN :
        /\ ok => Exists(u_disk.exe_new)
        /\ hp_copies' = Append(hp_copies, ok)
        /\ hp_ok' = (hp_ok \/ ok)
        /\ hp_pc' = AfterCopy(ok, Len(hp_copies) + 1)
        /\ u_disk' = IF ok THEN [u_disk EXCEPT !.exe = u_disk.exe_new] ELSE u_disk
        /\ u_writers' = IF ok
                        THEN u_writers \cup {[by |-> "helper", waited |-> hp_wait # None]}
                        ELSE u_writers
    /\ UNCHANGED <<hp_wait, hp_starts, hp_runs>>
    /\ UNCHANGED <<u_rev, u_gen, u_pc, u_alive, u_cfg, u_info, u_version, u_attempt, u_dl,
                   u_percent, u_result, u_results, u_disk0>>
    /\ UNCHANGED <<retryVars, guiVars, pipeVars, semverVars, sideVars>>

\* a cleanup that leaves the temp file whatever $ok is
TempAfterCleanup_Never(ok, temp) == temp

\* if($ok) { Remove-Item -Path exe.new -Force -ErrorAction SilentlyContinue }
TempAfterCleanup(ok, temp) == IF ok THEN "absent" ELSE temp

HelperCleanup ==
    /\ hp_pc = "cleanup"
    /\ u_disk' = [u_disk EXCEPT !.exe_new = TempAfterCleanup(hp_ok, u_disk.exe_new)]
    /\ hp_pc' = "start"
    /\ UNCHANGED <<hp_wait, hp_copies, hp_ok, hp_starts, hp_runs>>
    /\ UNCHANGED <<u_rev, u_gen, u_pc, u_alive, u_cfg, u_info, u_version, u_attempt, u_dl,
                   u_percent, u_result, u_results, u_disk0, u_writers>>
    /\ UNCHANGED <<retryVars, guiVars, pipeVars, semverVars, sideVars>>

\* a script that ends without Start-Process when no copy worked
StartsAfter_OnlyIfCopied(ok, starts) == IF ok THEN starts + 1 ELSE starts

\* Start-Process -FilePath exe, whatever $ok is
StartsAfter(ok, starts) == starts + 1

\* the last statement of the script: the final executable is started
HelperStart ==
    /\ hp_pc = "start"
    /\ hp_starts' = StartsAfter(hp_ok, hp_starts)
    /\ hp_pc' = "done"
    /\ IF hp_starts' > hp_starts
       THEN StartProcess(u_disk)
       ELSE UNCHANGED <<u_gen, u_pc, u_alive, u_version, u_attempt, u_dl, u_percent, u_result>>
    /\ UNCHANGED <<hp_wait, hp_copies, hp_ok, hp_runs>>
    /\ UNCHANGED <<u_rev, u_cfg, u_info, u_results, u_disk, u_disk0, u_writers>>
    /\ UNCHANGED <<retryVars, guiVars, pipeVars, semverVars, sideVars>>

\* ---- updater-rs/src/selfupdate.rs ----

\* check_and_update up to the download: no hash configured, sha256_file of the
\* running executable, comparison with the expected hash
RnCheck ==
    /\ u_rev = "rename"
    /\ u_pc = "check"
    /\ \E hash_ok \in BOOLEAN :
        IF u_info.sha256 = None
        THEN /\ hash_ok
             /\ SuReturn("UpToDate")
             /\ UNCHANGED u_percent
        ELSE IF ~hash_ok
        THEN /\ SuReturn("Err")
             /\ u_percent' = 1
        ELSE IF u_disk.exe = "new"
        THEN /\ SuReturn("UpToDate")
             /\ u_percent' = 1
        ELSE /\ u_pc' = "download"
             /\ u_percent' = 2
             /\ UNCHANGED <<u_result, u_results>>
    /\ UNCHANGED <<u_rev, u_gen, u_alive, u_cfg, u_info, u_version, u_attempt, u_dl,
                   u_disk, u_disk0, u_writers, helperVars>>
    /\ UNCHANGED <<retryVars, guiVars, pipeVars, semverVars, sideVars>>

\* the single download into exe.new and the hash check of the file: a file of
\* the wrong hash is removed, a download cut short by `?` stays
RnDownload ==
    /\ u_rev = "rename"
    /\ u_pc = "download"
    /\ \E out \in DownloadResults :
        LET d1 == [u_disk EXCEPT !.exe_new = TempAfter(out, u_disk.exe_new)]
        IN  /\ u_dl' = Append(u_dl, out)
            /\ IF out = "verified"
               THEN /\ u_pc' = "replace"
                    /\ u_percent' = 10
                    /\ u_disk' = d1
                    /\ UNCHANGED <<u_result, u_results>>
               ELSE /\ SuReturn("Err")
                    /\ u_disk' = IF out \in {"empty", "bad_magic"}
                                 THEN [d1 EXCEPT !.exe_new = "absent"]
                                 ELSE d1
                    /\ UNCHANGED u_percent
    /\ UNCHANGED <<u_rev, u_gen, u_alive, u_cfg, u_info, u_version, u_attempt, u_disk0,
                   u_writers, helperVars>>
    /\ UNCHANGED <<retryVars, guiVars, pipeVars, semverVars, sideVars>>

\* remove a left-over exe.old; fs::rename(exe, exe.old)?; fs::rename(exe.new, exe),
\* and on its failure the rollback fs::rename(exe.old, exe), whose result is dropped
RnReplace ==
    /\ u_rev = "rename"
    /\ u_pc = "replace"
    /\ \E moved_old, moved_new, rolled_back \in BOOLEAN :
        LET d_old == [u_disk EXCEPT !.exe_old = u_disk.exe, !.exe = "absent"]
            d_new == [d_old EXCEPT !.exe = d_old.exe_new, !.exe_new = "absent"]
            d_back == [d_old EXCEPT !.exe = d_old.exe_old, !.exe_old = "absent"]
            me == [by |-> "updater", waited |-> FALSE]
        IN  IF ~moved_old
            THEN /\ moved_new /\ rolled_back
                 /\ SuReturn("Err")
                 /\ u_disk' = [u_disk EXCEPT !.exe_old = "absent"]
                 /\ UNCHANGED <<u_percent, u_writers>>
            ELSE IF moved_new
            THEN /\ rolled_back
                 /\ u_pc' = "spawn_new"
                 /\ u_percent' = 11
                 /\ u_disk' = d_new
                 /\ u_writers' = u_writers \cup {me}
                 /\ UNCHANGED <<u_result, u_results>>
            ELSE /\ SuReturn("Err")
                 /\ u_disk' = IF rolled_back THEN d_back ELSE d_old
                 /\ u_writers' = u_writers \cup {me}
                 /\ UNCHANGED u_percent
    /\ UNCHANGED <<u_rev, u_gen, u_alive, u_cfg, u_info, u_version, u_attempt, u_dl,
                   u_disk0, helperVars>>
    /\ UNCHANGED <<retryVars, guiVars, pipeVars, semverVars, sideVars>>

\* Command::new(exe).spawn().context(..)?; Ok(Restarting): the new executable
\* runs beside the process that started it
RnSpawn ==
    /\ u_rev = "rename"
    /\ u_pc = "spawn_new"
    /\ \E spawn_ok \in BOOLEAN :
        IF spawn_ok
        THEN /\ u_results' = Append(u_results, "Restarting")
             /\ StartProcess(u_disk)
        ELSE /\ SuReturn("Err")
             /\ UNCHANGED <<u_gen, u_alive, u_version, u_attempt, u_dl, u_percent>>
    /\ UNCHANGED <<u_rev, u_cfg, u_info, u_disk, u_disk0, u_writers, helperVars>>
    /\ UNCHANGED <<retryVars, guiVars, pipeVars, semverVars, sideVars>>

SuNext ==
    \/ SuMain
    \/ SuCheck
    \/ SuDownload
    \/ SuPersist
    \/ SuSpawn
    \/ SuExit
    \/ HelperWaitExited
    \/ HelperWaitTimeout
    \/ HelperCopy
    \/ HelperCleanup
    \/ HelperStart
    \/ RnCheck
    \/ RnDownload
    \/ RnReplace
    \/ RnSpawn

\* ---- a second updater process ----

\* nothing keeps the updater from being started twice: while a helper is at
\* work the executable is started again, and main of that process begins with
\* selfupdate::cleanup_old_exe()
OtherUpdaterStartup ==
    /\ hp_pc \in {"wait", "copy", "cleanup", "start"}
    /\ u_disk' = cleanup_old_exe(u_rev, u_disk)
    /\ UNCHANGED <<u_rev, u_gen, u_pc, u_alive, u_cfg, u_info, u_version, u_attempt, u_dl,
                   u_percent, u_result, u_results, u_disk0, u_writers, helperVars>>
    /\ UNCHANGED <<retryVars, guiVars, pipeVars, semverVars, sideVars>>

SuNextShared ==
    \/ SuNext
    \/ OtherUpdaterStartup

\* ========================================================================
\* The network operations of run_update and how each is called
\* ========================================================================

\* the operations that talk to a server, in the order run_update reaches them
NetSites ==
    <<"fetch_remote_version", "fetch_updater_info", "download_updater",
      "download_jre", "download_pcl2", "download_packwiz", "download_fabric_installer",
      "download_settings", "download_vanilla_version", "sync_modpack">>

NetSiteNames == {NetSites[i] : i \in 1..Len(NetSites)}

\* the operations whose call is the closure of a retry::with_retry(
\* RETRY_MAX_ATTEMPTS, RETRY_BASE_DELAY_SECS, ..): fetch_remote_version,
\* fetch_updater_info, download_and_verify and sync_modpack; download_file and
\* download_vanilla_version are called directly, followed by `?`
RetriedSites ==
    {"fetch_remote_version", "fetch_updater_info", "download_updater", "sync_modpack"}

\* the operations whose error run_update logs and drops: both belong to
\* check_and_update
SwallowedSites == {"fetch_updater_info", "download_updater"}

\* the operations a run reaches only when something is missing or out of date
OptionalSites == NetSiteNames \ {"fetch_remote_version", "fetch_updater_info", "sync_modpack"}

NetParked ==
    /\ n_pc = "parked"
    /\ n_idx = 0
    /\ n_attempt = 0
    /\ n_calls = [s \in NetSiteNames |-> 0]
    /\ n_failed = {}
    /\ n_result = "none"

\* run_update is entered
NetInit ==
    /\ n_pc = "next"
    /\ n_idx = 0
    /\ n_attempt = 0
    /\ n_calls = [s \in NetSiteNames |-> 0]
    /\ n_failed = {}
    /\ n_result = "none"

\* run_update reaches its next network operation and calls it, or finds
\* nothing to fetch there; check_and_update downloads only after it got the
\* version document
NetReach ==
    /\ n_pc = "next"
    /\ n_idx < Len(NetSites)
    /\ \E needed \in BOOLEAN :
        LET site == NetSites[n_idx + 1]
        IN  /\ site \notin OptionalSites => needed
            /\ (site = "download_updater" /\ "fetch_updater_info" \in n_failed) => ~needed
            /\ n_pc' = IF needed THEN "call" ELSE "next"
            /\ n_attempt' = IF needed THEN 1 ELSE 0
    /\ n_idx' = n_idx + 1
    /\ UNCHANGED <<n_calls, n_failed, n_result>>
    /\ UNCHANGED <<retryVars, guiVars, pipeVars, suVars, helperVars, semverVars, zipVars, chanVars, stripVars, versionsVars, ensureVars>>

\* one request of the operation at n_idx. Ok: run_update goes on (after the
\* updater download it returns SelfUpdateRestarting). Err: inside with_retry the
\* next attempt follows while attempt < max_attempts; otherwise the error
\* reaches run_update, which drops it or returns
NetAttempt ==
    /\ n_pc = "call"
    /\ \E ok \in BOOLEAN :
        LET site == NetSites[n_idx]
            again == ~ok /\ site \in RetriedSites /\ n_attempt < RETRY_MAX_ATTEMPTS
            failed == ~ok /\ ~again
        IN  /\ n_calls' = [n_calls EXCEPT ![site] = @ + 1]
            /\ n_attempt' = IF again THEN n_attempt + 1 ELSE n_attempt
            /\ n_failed' = IF failed THEN n_failed \cup {site} ELSE n_failed
            /\ n_pc' = IF again THEN "call"
                       ELSE IF ok /\ site = "download_updater" THEN "done"
                       ELSE IF failed /\ site \notin SwallowedSites THEN "done"
                       ELSE "next"
            /\ n_result' = IF again THEN n_result
                           ELSE IF ok /\ site = "download_updater" THEN "Restarting"
                           ELSE IF failed /\ site \notin SwallowedSites THEN "Failed"
                           ELSE n_result
    /\ UNCHANGED n_idx
    /\ UNCHANGED <<retryVars, guiVars, pipeVars, suVars, helperVars, semverVars, zipVars, chanVars, stripVars, versionsVars, ensureVars>>

\* sync_modpack returned Ok: run_update returns Ok(Success)
NetFinish ==
    /\ n_pc = "next"
    /\ n_idx = Len(NetSites)
    /\ n_pc' = "done"
    /\ n_result' = "Success"
    /\ UNCHANGED <<n_idx, n_attempt, n_calls, n_failed>>
    /\ UNCHANGED <<retryVars, guiVars, pipeVars, suVars, helperVars, semverVars, zipVars, chanVars, stripVars, versionsVars, ensureVars>>

NetNext ==
    \/ NetReach
    \/ NetAttempt
    \/ NetFinish

\* ========================================================================
\* bootstrap.rs: extract_settings_zip
\* ========================================================================

\* paths below the destination directory
ZipNames == {"options.txt", "config"}

\* entry names that dest.join(name) resolves to a path outside the destination
\* directory: a leading ".." segment (an absolute name behaves alike)
EscapingNames == {"../servers.dat"}

\* the paths an extraction can reach: dest.join(name) for every entry name
ZipPaths == ZipNames \cup EscapingNames

\* the bytes of an entry of the archive
PackData == {"pack_a", "pack_b"}

\* a path of the destination directory is "absent", a "dir", a file of the
\* "player", a file cut short by a failed copy ("partial"), or holds PackData

\* the entries of an archive: entry.name() may be empty, entry.is_dir()
ZipEntries ==
    {e \in [name : ZipPaths \cup {""}, is_dir : BOOLEAN, data : PackData] :
        e.is_dir => e.data = "pack_a"}

Archives == UNION {[1..n -> ZipEntries] : n \in 0..MaxEntries}

\* an extraction that writes a file entry whether or not its path exists
extract_entry_Overwrite(fs, e, fails, how) ==
    IF e.name = "" THEN [ok |-> TRUE, fs |-> fs]
    ELSE IF e.is_dir
    THEN IF fs[e.name] = "dir" THEN [ok |-> TRUE, fs |-> fs]
         ELSE IF fs[e.name] # "absent" \/ fails THEN [ok |-> FALSE, fs |-> fs]
         ELSE [ok |-> TRUE, fs |-> [fs EXCEPT ![e.name] = "dir"]]
    ELSE IF fs[e.name] = "dir" \/ (fails /\ how = "create") THEN [ok |-> FALSE, fs |-> fs]
    ELSE IF fails THEN [ok |-> FALSE, fs |-> [fs EXCEPT ![e.name] = "partial"]]
    ELSE [ok |-> TRUE, fs |-> [fs EXCEPT ![e.name] = e.data]]

\* the body of `for i in 0..archive.len()` for the entry e: an empty name is
\* skipped; a directory entry is created with create_dir_all, which fails on
\* a file; a file entry whose path exists is skipped, another one is created
\* and copied. fails: the write of this entry fails, at File::create (how =
\* "create") or during io::copy
extract_entry(fs, e, fails, how) ==
    IF e.name = "" THEN [ok |-> TRUE, fs |-> fs]
    ELSE IF e.is_dir
    THEN IF fs[e.name] = "dir" THEN [ok |-> TRUE, fs |-> fs]
         ELSE IF fs[e.name] # "absent" \/ fails THEN [ok |-> FALSE, fs |-> fs]
         ELSE [ok |-> TRUE, fs |-> [fs EXCEPT ![e.name] = "dir"]]
    ELSE IF fs[e.name] # "absent" THEN [ok |-> TRUE, fs |-> fs]
    ELSE IF fails /\ how = "create" THEN [ok |-> FALSE, fs |-> fs]
    ELSE IF fails THEN [ok |-> FALSE, fs |-> [fs EXCEPT ![e.name] = "partial"]]
    ELSE [ok |-> TRUE, fs |-> [fs EXCEPT ![e.name] = e.data]]

RECURSIVE ExtractFrom(_, _, _, _, _)
\* the loop over the entries from the i-th on; the first `?` that fails
\* returns
ExtractFrom(archive, i, fs, fail_at, how) ==
    IF i > Len(archive) THEN [ok |-> TRUE, fs |-> fs]
    ELSE LET r == extract_entry(fs, archive[i], i = fail_at, how)
         IN  IF r.ok THEN ExtractFrom(archive, i + 1, r.fs, fail_at, how) ELSE r

\* extract_settings_zip(zip_path, dest) on an archive that opens
extract_settings_zip(archive, fs, fail_at, how) == ExtractFrom(archive, 1, fs, fail_at, how)

ZipParked ==
    /\ z_pc = "parked"
    /\ z_archive = <<>>
    /\ z_before = [n \in ZipPaths |-> "absent"]
    /\ z_prev = [n \in ZipPaths |-> "absent"]
    /\ z_fs = [n \in ZipPaths |-> "absent"]
    /\ z_results = <<>>

\* a downloaded archive and a .minecraft directory the launcher or the player
\* may have written to
ZipInit ==
    /\ z_pc = "start"
    /\ z_archive \in Archives
    /\ z_before \in [ZipPaths -> {"absent", "dir", "player"}]
    /\ \A n \in EscapingNames : z_before[n] # "dir"
    /\ z_prev = z_before
    /\ z_fs = z_before
    /\ z_results = <<>>

\* one call of extract_settings_zip
ZipExtract ==
    /\ z_pc \in {"start", "extracted"}
    /\ Len(z_results) < MaxRuns
    /\ \E fail_at \in 0..Len(z_archive), how \in {"create", "copy"} :
        LET r == extract_settings_zip(z_archive, z_fs, fail_at, how)
        IN  /\ fail_at = 0 => how = "create"
            /\ z_prev' = z_fs
            /\ z_fs' = r.fs
            /\ z_results' = Append(z_results, r.ok)
    /\ z_pc' = "extracted"
    /\ UNCHANGED <<z_archive, z_before>>
    /\ UNCHANGED <<retryVars, guiVars, pipeVars, suVars, helperVars, semverVars, netVars, chanVars, stripVars, versionsVars, ensureVars>>

ZipNext == ZipExtract

\* ========================================================================
\* main.rs: resolve_channel over successive launches
\* ========================================================================

\* the install directory as far as resolve_channel looks at it
ChannelDir(file) == [channel_json |-> file]

ChanParked ==
    /\ c_pc = "parked"
    /\ c_file = NoFile
    /\ c_cli = "none"
    /\ c_cfg = DefaultChannelConfig
    /\ c_saves = 0

\* the updater is about to be launched; channel.json is missing, cut short,
\* or holds a ChannelConfig
ChanInit ==
    /\ c_pc = "launch"
    /\ c_file \in {NoFile, Corrupt} \cup {FileOf(c) : c \in ChannelConfigs}
    /\ c_cli = "none"
    /\ c_cfg = DefaultChannelConfig
    /\ c_saves = 0

\* main calls resolve_channel(&base_dir): with stable or dev on the command
\* line the configuration is saved (an error of the save is only printed)
ChanLaunch ==
    /\ c_pc = "launch"
    /\ c_saves < MaxRuns
    /\ \E cli \in CliChannels, saved \in BOOLEAN :
        LET cfg == resolve_channel(cli, ChannelDir(c_file))
            saves == cli \in {"stable", "dev"}
        IN  /\ saves \/ saved
            /\ c_cli' = cli
            /\ c_cfg' = cfg
            /\ c_file' = IF saves /\ saved THEN FileOf(cfg) ELSE c_file
            /\ c_saves' = IF saves THEN c_saves + 1 ELSE c_saves
    /\ c_pc' = "running"
    /\ UNCHANGED <<retryVars, guiVars, pipeVars, suVars, helperVars, semverVars, netVars, zipVars, stripVars, versionsVars, ensureVars>>

\* the process ends: without an update of the updater, or after a dev update
\* whose check_and_update saved the build id into the configuration it read
\* back from channel.json
ChanExit ==
    /\ c_pc = "running"
    /\ \E updated, saved \in BOOLEAN, b \in BuildIds :
        LET file == [read_channel_config(ChannelDir(c_file)) EXCEPT !.dev_build_id = b]
        IN  /\ updated => c_cfg.channel = "dev" /\ c_saves < MaxRuns
            /\ ~updated => saved
            /\ c_file' = IF updated /\ saved THEN FileOf(file) ELSE c_file
            /\ c_saves' = IF updated THEN c_saves + 1 ELSE c_saves
    /\ c_pc' = "launch"
    /\ UNCHANGED <<c_cli, c_cfg>>
    /\ UNCHANGED <<retryVars, guiVars, pipeVars, suVars, helperVars, semverVars, netVars, zipVars, stripVars, versionsVars, ensureVars>>

ChanNext ==
    \/ ChanLaunch
    \/ ChanExit

\* ========================================================================
\* bootstrap.rs: extract_zip_strip_toplevel
\* ========================================================================

\* entry names, as sequences of characters: the top-level directory itself,
\* files below p/ and q/, a name without separator, a doubled separator, a
\* leading separator, and a first segment that only begins like another
StripNames ==
    {<<"p", "/">>, <<"p", "/", "a">>, <<"p", "/", "b">>, <<"q", "/", "a">>, <<"p">>,
     <<"p", "/", "/", "a">>, <<"/", "a">>, <<"p", "q", "/", "a">>}

StripArchives == UNION {[1..n -> StripNames] : n \in 0..MaxEntries}

\* the position of the first '/' of s, 0 without one
FirstSlash(s) ==
    LET at == {i \in 1..Len(s) : s[i] = "/"}
    IN  IF at = {} THEN 0 ELSE CHOOSE i \in at : \A j \in at : i <= j

\* first_name.split('/').next()
first_segment(s) == IF FirstSlash(s) = 0 THEN s ELSE SubSeq(s, 1, FirstSlash(s) - 1)

\* name.starts_with(&prefix)
starts_with(s, prefix) == Len(prefix) <= Len(s) /\ SubSeq(s, 1, Len(prefix)) = prefix

\* full_name.strip_prefix(prefix).unwrap_or(&full_name)
strip_prefix_or(s, prefix) ==
    IF starts_with(s, prefix) THEN SubSeq(s, Len(prefix) + 1, Len(s)) ELSE s

RECURSIVE trim_start_slashes(_)
\* stripped.trim_start_matches('/')
trim_start_slashes(s) ==
    IF s # <<>> /\ s[1] = "/" THEN trim_start_slashes(Tail(s)) ELSE s

\* None
NoPrefix == [some |-> FALSE, prefix |-> <<>>]

\* a detect_common_prefix that takes the first entry's word for all
detect_common_prefix_FirstOnly(archive) ==
    IF archive = <<>> THEN NoPrefix
    ELSE LET candidate == first_segment(archive[1])
         IN  IF candidate = <<>> THEN NoPrefix
             ELSE [some |-> TRUE, prefix |-> Append(candidate, "/")]

\* detect_common_prefix(archive): the first segment of the first entry plus
\* '/', when every later entry starts with it
detect_common_prefix(archive) ==
    IF archive = <<>> THEN NoPrefix
    ELSE LET candidate == first_segment(archive[1])
             prefix == Append(candidate, "/")
         IN  IF candidate = <<>> THEN NoPrefix
             ELSE IF \E i \in 2..Len(archive) : ~starts_with(archive[i], prefix)
             THEN NoPrefix
             ELSE [some |-> TRUE, prefix |-> prefix]

\* let relative = if let Some(ref prefix) = common_prefix { .. } else { &full_name }
relative_path(full_name, common_prefix) ==
    IF common_prefix.some
    THEN trim_start_slashes(strip_prefix_or(full_name, common_prefix.prefix))
    ELSE full_name

\* extract_zip_strip_toplevel: per entry the path below dest it is written to;
\* an entry whose relative path is empty is skipped
extract_zip_strip_toplevel(archive) ==
    LET common_prefix == detect_common_prefix(archive)
    IN  [i \in 1..Len(archive) |-> relative_path(archive[i], common_prefix)]

StripParked ==
    /\ t_pc = "parked"
    /\ t_archive = <<>>
    /\ t_out = <<>>

\* a downloaded archive is about to be extracted
StripInit ==
    /\ t_pc = "start"
    /\ t_archive \in StripArchives
    /\ t_out = <<>>

\* one call of extract_zip_strip_toplevel
StripExtract ==
    /\ t_pc = "start"
    /\ t_out' = extract_zip_strip_toplevel(t_archive)
    /\ t_pc' = "extracted"
    /\ UNCHANGED t_archive
    /\ UNCHANGED <<retryVars, guiVars, pipeVars, suVars, helperVars, semverVars, netVars, zipVars, chanVars, versionsVars, ensureVars>>

StripNext == StripExtract

\* ========================================================================
\* fabric.rs: cleanup_old_versions
\* ========================================================================

\* the version tags a directory of .minecraft/versions/ can be named after
KeepTags == {"tag_a", "tag_b"}

\* a name that is not valid Unicode: file_name().and_then(|n| n.to_str()) is None
RawNames == {"raw"}

EntryNames == KeepTags \cup RawNames

\* what read_dir finds under a name
EntryKinds == {"absent", "dir", "file"}

to_str_ok(name) == name \notin RawNames

\* a loop that leaves out the comparison with keep_tag
removable_dirs_All(entries, keep_tag) ==
    {n \in EntryNames : entries[n] = "dir" /\ to_str_ok(n)}

\* the entries the loop of cleanup_old_versions hands to remove_dir_all:
\* directories whose name converts to a string other than keep_tag
removable_dirs(entries, keep_tag) ==
    {n \in EntryNames : entries[n] = "dir" /\ to_str_ok(n) /\ n # keep_tag}

\* the versions directory after the directories of removed are gone
cleanup_old_versions(entries, removed) ==
    [n \in EntryNames |-> IF n \in removed THEN "absent" ELSE entries[n]]

VersionsParked ==
    /\ v_pc = "parked"
    /\ v_exists = FALSE
    /\ v_before = [n \in EntryNames |-> "absent"]
    /\ v_entries = [n \in EntryNames |-> "absent"]
    /\ v_keep = "tag_a"
    /\ v_result = "none"

\* before a call: a versions directory with some entries, or none at all
VersionsInit ==
    /\ v_pc = "start"
    /\ v_exists \in BOOLEAN
    /\ v_entries \in [EntryNames -> EntryKinds]
    /\ ~v_exists => v_entries = [n \in EntryNames |-> "absent"]
    /\ v_before = v_entries
    /\ v_keep = "tag_a"
    /\ v_result = "none"

\* one call of cleanup_old_versions(base_dir, keep_tag): without a versions
\* directory it returns Ok at once; otherwise read_dir, an entry or a
\* remove_dir_all may fail, which ends the loop with some directories removed
VersionsCleanup ==
    /\ v_pc = "start"
    /\ \E keep_tag \in KeepTags, ok \in BOOLEAN :
       \E removed \in SUBSET removable_dirs(v_entries, keep_tag) :
        /\ ~v_exists => ok
        /\ ok => removed = removable_dirs(v_entries, keep_tag)
        /\ v_entries' = cleanup_old_versions(v_entries, removed)
        /\ v_keep' = keep_tag
        /\ v_result' = IF ok THEN "Ok" ELSE "Err"
    /\ v_pc' = "returned"
    /\ UNCHANGED <<v_exists, v_before>>
    /\ UNCHANGED <<retryVars, guiVars, pipeVars, suVars, helperVars, semverVars, netVars, zipVars, chanVars, stripVars, ensureVars>>

VersionsNext == VersionsCleanup

\* ========================================================================
\* update.rs and fabric.rs: the steps run_update repeats on every start
\* ========================================================================

IndieTrue == "VersionArgumentIndieV2:True"

IndieFalse == "VersionArgumentIndieV2:False"

\* the key followed by some other value
IndieKey == "VersionArgumentIndieV2:"

\* the pieces a Setup.ini is made of: the three settings above, a line of
\* another setting, and the line break
IniTokens == {IndieTrue, IndieFalse, IndieKey, "Language:zh", "\n"}

\* content.contains("VersionArgumentIndieV2:")
KeyTokens == {IndieTrue, IndieFalse, IndieKey}

IniTexts == UNION {[1..n -> IniTokens] : n \in 0..MaxEntries}

NoIni == [exists |-> FALSE, content |-> <<>>]

IniFile(content) == [exists |-> TRUE, content |-> content]

\* versions/<version_tag>/PCL/Setup.ini as another program can leave it
IniFiles == {NoIni} \cup {IniFile(c) : c \in IniTexts}

contains(content, tokens) == \E i \in 1..Len(content) : content[i] \in tokens

\* content.replace("VersionArgumentIndieV2:True", "VersionArgumentIndieV2:False")
replace_true(content) ==
    [i \in 1..Len(content) |-> IF content[i] = IndieTrue THEN IndieFalse ELSE content[i]]

ends_with_newline(content) == content # <<>> /\ content[Len(content)] = "\n"

\* fs::write(&setup_ini, new): "failed" leaves the file as it was,
\* "interrupted" leaves the truncated file
write_ini(ini, new, out) ==
    IF out = "ok" THEN [ok |-> TRUE, ini |-> IniFile(new)]
    ELSE IF out = "interrupted" THEN [ok |-> FALSE, ini |-> IniFile(<<>>)]
    ELSE [ok |-> FALSE, ini |-> ini]

\* a fix_version_isolation that appends the setting whenever True is not found
fix_version_isolation_NoKeyCheck(ini, out) ==
    IF ini.exists
    THEN IF out = "failed" THEN [ok |-> FALSE, ini |-> ini]
         ELSE IF contains(ini.content, {IndieTrue})
         THEN write_ini(ini, replace_true(ini.content), out)
         ELSE write_ini(ini, (IF ends_with_newline(ini.content) THEN ini.content
                              ELSE Append(ini.content, "\n"))
                             \o <<IndieFalse, "\n">>, out)
    ELSE write_ini(ini, <<IndieFalse, "\n">>, out)

\* fix_version_isolation(base_dir, version_tag) on the Setup.ini ini; out is
\* what the file system lets happen: "failed" fails the first call
\* (read_to_string or create_dir_all), "interrupted" fails inside fs::write
fix_version_isolation(ini, out) ==
    IF ini.exists
    THEN IF out = "failed" THEN [ok |-> FALSE, ini |-> ini]
         ELSE IF contains(ini.content, {IndieTrue})
         THEN write_ini(ini, replace_true(ini.content), out)
         ELSE IF ~contains(ini.content, KeyTokens)
         THEN write_ini(ini, (IF ends_with_newline(ini.content) THEN ini.content
                              ELSE Append(ini.content, "\n"))
                             \o <<IndieFalse, "\n">>, out)
         ELSE [ok |-> TRUE, ini |-> ini]
    ELSE write_ini(ini, <<IndieFalse, "\n">>, out)

\* where download_vanilla_version can fail
VanillaFailures == {"none", "manifest", "version_json", "write_json", "client_jar", "stream"}

\* download_vanilla_version(mc_dir, mc_version) on the two files of the
\* vanilla client ("absent", "partial", "complete"): what it returns, the
\* files afterwards, the number of requests it sent and whether it wrote
download_vanilla_client(json, jar, fail_at) ==
    LET R(ok, j, a, requests, wrote) ==
            [ok |-> ok, json |-> j, jar |-> a, requests |-> requests, wrote |-> wrote]
        json_read == IF json = "absent" THEN "complete" ELSE json
        fetched == IF json = "absent" THEN 2 ELSE 1
    IN  IF Exists(json) /\ Exists(jar) THEN R(TRUE, json, jar, 0, FALSE)
        ELSE IF fail_at = "manifest" THEN R(FALSE, json, jar, 1, TRUE)
        ELSE IF json = "absent" /\ fail_at = "version_json" THEN R(FALSE, json, jar, 2, TRUE)
        ELSE IF json = "absent" /\ fail_at = "write_json" THEN R(FALSE, "partial", jar, 2, TRUE)
        ELSE IF Exists(jar) THEN R(TRUE, json_read, jar, fetched, TRUE)
        ELSE IF json_read = "partial" THEN R(FALSE, json_read, jar, fetched, TRUE)
        ELSE IF fail_at = "client_jar" THEN R(FALSE, json_read, jar, fetched + 1, TRUE)
        ELSE IF fail_at = "stream" THEN R(FALSE, json_read, "partial", fetched + 1, TRUE)
        ELSE R(TRUE, json_read, "complete", fetched + 1, TRUE)

EnsureSteps == {"ensure_vanilla_client", "fix_version_isolation"}

EnsureParked ==
    /\ e_pc = "parked"
    /\ e_run = 0
    /\ e_upgraded = FALSE
    /\ e_json = "absent"
    /\ e_jar = "absent"
    /\ e_ini = NoIni
    /\ e_called = {}
    /\ e_requests = 0
    /\ e_wrote = FALSE

\* run_update has passed the bootstrap stage of its first run
EnsureInit ==
    /\ e_pc = "version_check"
    /\ e_run = 1
    /\ e_upgraded = FALSE
    /\ e_json \in {"absent", "partial", "complete"}
    /\ e_jar \in {"absent", "partial", "complete"}
    /\ e_ini \in IniFiles
    /\ e_called = {}
    /\ e_requests = 0
    /\ e_wrote = FALSE

\* update.rs 120-162: without an upgrade the stage changes nothing; an upgrade
\* either fails, or install_fabric has fetched the vanilla client and
\* cleanup_old_versions has removed its directory again
EnsureVersionCheck ==
    /\ e_pc = "version_check"
    /\ \E upgrade, ok \in BOOLEAN :
        /\ e_upgraded' = upgrade
        /\ IF ~upgrade
           THEN e_pc' = "ensure_vanilla" /\ UNCHANGED <<e_json, e_jar>>
           ELSE IF ok
           THEN e_pc' = "ensure_vanilla" /\ e_json' = "absent" /\ e_jar' = "absent"
           ELSE e_pc' = "failed" /\ UNCHANGED <<e_json, e_jar>>
    /\ UNCHANGED <<e_run, e_ini, e_called, e_requests, e_wrote>>
    /\ UNCHANGED <<retryVars, guiVars, pipeVars, suVars, helperVars, semverVars, netVars, zipVars, chanVars, stripVars, versionsVars>>

\* fabric::ensure_vanilla_client(base_dir, &remote.mc_version)?
EnsureVanilla ==
    /\ e_pc = "ensure_vanilla"
    /\ \E fail_at \in VanillaFailures :
        LET r == download_vanilla_client(e_json, e_jar, fail_at)
        IN  /\ e_json' = r.json
            /\ e_jar' = r.jar
            /\ e_requests' = r.requests
            /\ e_wrote' = r.wrote
            /\ e_pc' = IF r.ok THEN "fix_isolation" ELSE "failed"
    /\ e_called' = e_called \cup {"ensure_vanilla_client"}
    /\ UNCHANGED <<e_run, e_upgraded, e_ini>>
    /\ UNCHANGED <<retryVars, guiVars, pipeVars, suVars, helperVars, semverVars, netVars, zipVars, chanVars, stripVars, versionsVars>>

\* fabric::fix_version_isolation(base_dir, &remote.version_tag)?
EnsureIsolation ==
    /\ e_pc = "fix_isolation"
    /\ \E out \in {"ok", "failed", "interrupted"} :
        LET r == fix_version_isolation(e_ini, out)
        IN  /\ e_ini' = r.ini
            /\ e_pc' = IF r.ok THEN "sync" ELSE "failed"
    /\ e_called' = e_called \cup {"fix_version_isolation"}
    /\ UNCHANGED <<e_run, e_upgraded, e_json, e_jar, e_requests, e_wrote>>
    /\ UNCHANGED <<retryVars, guiVars, pipeVars, suVars, helperVars, semverVars, netVars, zipVars, chanVars, stripVars, versionsVars>>

\* the launcher runs after the update and rewrites the version's Setup.ini
\* (the reason fix_version_isolation is repeated on every start)
EnsureLauncher ==
    /\ e_pc = "sync"
    /\ e_ini' \in IniFiles
    /\ e_pc' = "launched"
    /\ UNCHANGED <<e_run, e_upgraded, e_json, e_jar, e_called, e_requests, e_wrote>>
    /\ UNCHANGED <<retryVars, guiVars, pipeVars, suVars, helperVars, semverVars, netVars, zipVars, chanVars, stripVars, versionsVars>>

\* the updater is started again
EnsureNextRun ==
    /\ e_pc \in {"launched", "failed"}
    /\ e_run < MaxRuns
    /\ e_run' = e_run + 1
    /\ e_pc' = "version_check"
    /\ e_called' = {}
    /\ e_requests' = 0
    /\ e_wrote' = FALSE
    /\ e_upgraded' = FALSE
    /\ UNCHANGED <<e_json, e_jar, e_ini>>
    /\ UNCHANGED <<retryVars, guiVars, pipeVars, suVars, helperVars, semverVars, netVars, zipVars, chanVars, stripVars, versionsVars>>

EnsureNext ==
    \/ EnsureVersionCheck
    \/ EnsureVanilla
    \/ EnsureIsolation
    \/ EnsureLauncher
    \/ EnsureNextRun

\* ========================================================================
\* Specifications
\* ========================================================================

\* neither check_and_update nor is_remote_newer is running
UpdParked == SuParked /\ HelperParked /\ SemverParked /\ NetParked /\ ZipParked /\ ChanParked /\ StripParked /\ VersionsParked /\ EnsureParked

\* one call of with_retry
InitRetry == RetryInit /\ GuiParked /\ PipeParked /\ UpdParked

SpecRetry == InitRetry /\ [][RetryNext]_vars

\* one run of UpdaterApp::run: the worker thread against the GUI event loop
InitGui == GuiInit /\ RetryParked /\ PipeParked /\ UpdParked

SpecGui == InitGui /\ [][GuiNext]_vars

\* the worker thread keeps being scheduled while the process lives, run_update
\* ends (by a return or by a panic), and the event loop keeps dispatching the
\* notices and timer ticks it has; only the user's close is left to chance
GuiFairness ==
    /\ WF_vars(WorkerReturn \/ WorkerPanic)
    /\ WF_vars(WorkerProgressNotice)
    /\ WF_vars(WorkerPostFinish)
    /\ WF_vars(WorkerFinishNotice)
    /\ WF_vars(WorkerMarkCompleted)
    /\ WF_vars(GuardDrop)
    /\ WF_vars(GuardNotice)
    /\ WF_vars(OnProgressUpdate)
    /\ WF_vars(OnLaunchTimer)
    /\ WF_vars(GuiExit)

SpecGuiLive == InitGui /\ [][GuiNext]_vars /\ GuiFairness

\* successive starts of the updater on one install directory
Init == PipeInit /\ RetryParked /\ GuiParked /\ UpdParked

Spec == Init /\ [][PipeNext]_vars

\* selfupdate: one chain of updater processes, from the start by the user to
\* the executables the replacement relaunches
InitUpdate ==
    SuInit /\ SemverParked /\ NetParked /\ ZipParked /\ ChanParked /\ StripParked /\ VersionsParked /\ EnsureParked /\ RetryParked /\ GuiParked /\ PipeParked

SpecUpdate == InitUpdate /\ [][SuNext]_vars

\* the helper is a process of its own that keeps running: its bounded wait
\* ends, every Copy-Item returns, and the script goes on to its last statement
HelperFairness ==
    /\ WF_vars(HelperWaitExited \/ HelperWaitTimeout)
    /\ WF_vars(HelperCopy)
    /\ WF_vars(HelperCleanup)
    /\ WF_vars(HelperStart)

SpecUpdateLive == InitUpdate /\ [][SuNext]_vars /\ HelperFairness

\* check_and_update, the helper and the relaunch, with the executable started
\* once more by hand while the helper is at work
SpecUpdateShared == InitUpdate /\ [][SuNextShared]_vars

\* one call of is_remote_newer
InitSemver ==
    /\ SemverInit /\ SuParked /\ HelperParked /\ NetParked /\ ZipParked /\ ChanParked /\ StripParked /\ VersionsParked /\ EnsureParked
    /\ RetryParked /\ GuiParked /\ PipeParked

SpecSemver == InitSemver /\ [][SemverNext]_vars

\* one run of run_update, seen as the network operations it issues
InitNet ==
    /\ NetInit /\ ZipParked /\ ChanParked /\ StripParked /\ VersionsParked /\ EnsureParked /\ SuParked /\ HelperParked /\ SemverParked
    /\ RetryParked /\ GuiParked /\ PipeParked

SpecNet == InitNet /\ [][NetNext]_vars

\* extractions of one settings archive into one directory
InitZip ==
    /\ ZipInit /\ NetParked /\ ChanParked /\ StripParked /\ VersionsParked /\ EnsureParked /\ SuParked /\ HelperParked /\ SemverParked
    /\ RetryParked /\ GuiParked /\ PipeParked

SpecZip == InitZip /\ [][ZipNext]_vars

\* successive launches of the updater with any command lines
InitChannel ==
    /\ ChanInit /\ NetParked /\ ZipParked /\ StripParked /\ VersionsParked /\ EnsureParked /\ SuParked /\ HelperParked /\ SemverParked
    /\ RetryParked /\ GuiParked /\ PipeParked

SpecChannel == InitChannel /\ [][ChanNext]_vars

\* one extraction of an archive with its top-level directory stripped
InitStrip ==
    /\ StripInit /\ VersionsParked /\ EnsureParked /\ NetParked /\ ZipParked /\ ChanParked /\ SuParked /\ HelperParked
    /\ SemverParked /\ RetryParked /\ GuiParked /\ PipeParked

SpecStrip == InitStrip /\ [][StripNext]_vars

\* one call of cleanup_old_versions
InitVersions ==
    /\ VersionsInit /\ EnsureParked /\ NetParked /\ ZipParked /\ ChanParked /\ StripParked /\ SuParked
    /\ HelperParked /\ SemverParked /\ RetryParked /\ GuiParked /\ PipeParked

SpecVersions == InitVersions /\ [][VersionsNext]_vars

\* the stages of run_update from the version check to the two repeated steps
InitEnsure ==
    /\ EnsureInit /\ NetParked /\ ZipParked /\ ChanParked /\ StripParked /\ VersionsParked
    /\ SuParked /\ HelperParked /\ SemverParked /\ RetryParked /\ GuiParked /\ PipeParked

SpecEnsure == InitEnsure /\ [][EnsureNext]_vars

\* ========================================================================
\* Claims about update.rs (checked under Spec)
\* ========================================================================

\* the operations of the upgrade stage
UpgradeOps == {"install_fabric", "cleanup_old_versions", "clean_mods_dir",
               "save_local_version"}

\* the positions of run_update inside the upgrade stage
UpgradePcs == {"install_fabric", "cleanup", "clean_mods", "save_local"}

\* this run called op
Invoked(events, op) == \E i \in 1..Len(events) : events[i].op = op

\* this run called op and it returned res
Returned(events, op, res) ==
    \E i \in 1..Len(events) : events[i] = [op |-> op, res |-> res]

\* the events a step appended
Appended(old, new) == {new[i] : i \in (Len(old) + 1)..Len(new)}

\* this run entered the upgrade stage and save_local_version did not get called
UpgradeCutShort ==
    /\ pc = "install_fabric" \/ Invoked(p_events, "install_fabric")
    /\ ~Invoked(p_events, "save_local_version")

\* C1: local.json changes only in the step that calls save_local_version, and
\* only in a run in which install_fabric, cleanup_old_versions and
\* clean_mods_dir returned Ok before it; a run that entered the upgrade stage
\* and ended (by an error or by the end of the process) before that call
\* leaves local.json as it found it, so that needs_version_upgrade is still
\* true for the same remote state.
C1_SaveOnlyAfterUpgradeSteps ==
    [][ /\ disk'.local_json # disk.local_json =>
            /\ pc = "save_local"
            /\ Returned(p_events, "install_fabric", "Ok")
            /\ Returned(p_events, "cleanup_old_versions", "Ok")
            /\ Returned(p_events, "clean_mods_dir", "Ok")
            /\ Invoked(p_events', "save_local_version")
        /\ UpgradeCutShort' =>
            /\ disk'.local_json = p_disk0'.local_json
            /\ needs_version_upgrade(p_remote', read_local_version(disk'))
      ]_vars

\* a second run found a local.json saved by the first, met another remote
\* state, failed in the upgrade stage and left local.json as it was
C1_Witness ==
    /\ pc = "idle"
    /\ p_outcome = OtherError
    /\ p_disk0.local_json.state = "json"
    /\ UpgradeCutShort
    /\ Returned(p_events, "install_fabric", "Ok")
    /\ Returned(p_events, "cleanup_old_versions", "Err")
    /\ disk.local_json = p_disk0.local_json

\* C2: once a run has saved local.json for a remote state, and as long as
\* every start since then met the same remote state, no step of a run calls
\* install_fabric, cleanup_old_versions, clean_mods_dir or save_local_version
\* or stands inside the upgrade stage.
C2_SecondRunSkipsUpgrade ==
    [][ (h_saved # NoRemote /\ h_saved = p_remote) =>
            /\ \A e \in Appended(p_events, p_events') : e.op \notin UpgradeOps
            /\ pc' \notin UpgradePcs
      ]_vars

\* the run after a completed upgrade, with the same remote state, ran to
\* Success without any call of the upgrade stage
C2_Witness ==
    /\ p_run = 2
    /\ h_saved = p_remote
    /\ p_outcome = Success
    /\ Returned(p_events, "sync_modpack", "Ok")
    /\ \A op \in UpgradeOps : ~Invoked(p_events, op)
    /\ disk.local_json = FileOf(LocalVersionOf(p_remote))

\* C3: a run whose fetch_remote_version fails calls nothing else and leaves
\* every file as it was; with the launcher present it reports 100 and returns
\* Offline, without it it returns an error.
C3_FetchFailure ==
    Returned(p_events, "fetch_remote_version", "Err") =>
        /\ p_events = <<[op |-> "fetch_remote_version", res |-> "Err"]>>
        /\ pc = "idle"
        /\ disk = p_disk0
        /\ IF p_disk0.pcl2 # "absent"
           THEN p_outcome = Offline /\ p_percent = 100
           ELSE p_outcome = OtherError

\* a later start of a bootstrapped install could not reach the server
C3_Witness ==
    /\ p_run = 2
    /\ Returned(p_events, "fetch_remote_version", "Err")
    /\ p_disk0.pcl2 = "complete"
    /\ p_disk0.local_json.state = "json"
    /\ p_outcome = Offline

\* C4: the step in which check_and_update returns Err does not return from
\* run_update: it leaves run_update in front of the bootstrap stage, where
\* the step in which it returns UpToDate leaves it too.
C4_SelfUpdateErrorSwallowed ==
    [][ \A e \in Appended(p_events, p_events') :
            (e.op = "check_and_update" /\ e.res \in {"Err", "UpToDate"}) =>
                pc' = "bootstrap" /\ p_outcome' = NotReturned
      ]_vars

\* a run whose self-update failed went through the later stages to Success
C4_Witness ==
    /\ Returned(p_events, "check_and_update", "Err")
    /\ Returned(p_events, "run_bootstrap", "Ok")
    /\ Returned(p_events, "save_local_version", "Ok")
    /\ p_outcome = Success

\* C5: in a run whose check_and_update returned Restarting, that call is the
\* last operation of the run, run_update has returned SelfUpdateRestarting,
\* and local.json is as the run found it.
C5_RestartingReturnsAtOnce ==
    Returned(p_events, "check_and_update", "Restarting") =>
        /\ p_events[Len(p_events)] = [op |-> "check_and_update", res |-> "Restarting"]
        /\ Len(p_events) = 2
        /\ pc = "idle"
        /\ p_outcome = SelfUpdateRestarting
        /\ disk.local_json = p_disk0.local_json

\* a start of a complete install found a newer updater and handed over to it
C5_Witness ==
    /\ p_run = 2
    /\ p_outcome = SelfUpdateRestarting
    /\ disk.exe_new = "complete"
    /\ p_disk0.local_json.state = "json"
    /\ Returned(p_events, "check_and_update", "Restarting")

\* ========================================================================
\* Claims about retry.rs (checked under SpecRetry)
\* ========================================================================

\* C6: with max_attempts >= 1, a call of f that succeeds after k < max_attempts
\* failures ends with_retry at once: the success is the last thing with_retry
\* did, f was invoked exactly k+1 times, and Ok(that value) is returned; and
\* with_retry gives up only after max_attempts failures, so the (k+1)-th call
\* is always made.
C6_SuccessAfterKFailures ==
    /\ \A i \in 1..Len(r_log) :
          (r_log[i].ev = "call" /\ r_log[i].out.ok) =>
              /\ i = Len(r_log)
              /\ r_pc = "done"
              /\ r_result.ok
              /\ r_result.value = r_log[i].out.value
              /\ Len(FailedCallsOf(r_log)) < r_max
              /\ Len(CallsOf(r_log)) = Len(FailedCallsOf(r_log)) + 1
    \* f is called again as long as it failed fewer than max_attempts times
    /\ (r_max >= 1 /\ r_pc \in {"after", "done"} /\ ~r_result.ok) =>
          Len(FailedCallsOf(r_log)) = r_max

\* C6 witness: a call returned Ok after two failed attempts
C6_Witness ==
    /\ r_pc = "done"
    /\ r_result.ok
    /\ Len(FailedCallsOf(r_log)) = 2
    /\ Len(CallsOf(r_log)) = 3

\* C7: with max_attempts >= 1 and every call of f failing, with_retry returns
\* after exactly max_attempts calls, and the error is the last call's error
\* wrapped in a context naming the operation and max_attempts.
C7_AlwaysFailing ==
    (r_pc = "done" /\ r_max >= 1 /\ Len(FailedCallsOf(r_log)) = Len(CallsOf(r_log))) =>
        /\ Len(CallsOf(r_log)) = r_max
        /\ ~r_result.ok
        /\ r_result.kind = "context"
        /\ r_result.cause = CallsOf(r_log)[r_max].out.err
        /\ r_result.operation = r_name
        /\ r_result.attempts = r_max

\* C7 witness: three failing attempts whose first and last errors differ
C7_Witness ==
    /\ r_pc = "done"
    /\ r_max = 3
    /\ Len(FailedCallsOf(r_log)) = 3
    /\ CallsOf(r_log)[1].out.err # CallsOf(r_log)[3].out.err
    /\ r_result.kind = "context"

\* C8: with max_attempts = 0 the first step of with_retry returns the ensure!
\* error; f is never invoked and nothing is slept.
C8_ZeroAttemptsFailsFast ==
    r_max = 0 =>
        /\ r_log = <<>>
        /\ r_pc \in {"start", "done"}
        /\ (r_pc = "done" => (~r_result.ok /\ r_result.kind = "ensure"))

\* C8 witness: a call with max_attempts = 0 has returned
C8_Witness ==
    /\ r_pc = "done"
    /\ r_max = 0
    /\ r_name \in OperationNames

\* C9: a sleep follows a failed attempt a < max_attempts and lasts
\* base_delay * 2^(a-1) seconds; every failed attempt a < max_attempts is
\* followed by its sleep and every attempt after the first is preceded by one;
\* nothing is slept after a success or after the last failed attempt, so a
\* finished call that made n attempts slept n-1 times.
C9_ExponentialBackoff ==
    /\ \A i \in 1..Len(r_log) :
          r_log[i].ev = "sleep" =>
              /\ i > 1
              /\ r_log[i-1].ev = "call"
              /\ ~r_log[i-1].out.ok
              /\ CallsUpTo(r_log, i) < r_max
              /\ r_log[i].secs = r_base * (2 ^ (CallsUpTo(r_log, i) - 1))
    /\ \A i \in 1..Len(r_log) :
          r_log[i].ev = "call" =>
              /\ (i > 1 => r_log[i-1].ev = "sleep")
              /\ ((~r_log[i].out.ok /\ CallsUpTo(r_log, i) < r_max) =>
                      (i < Len(r_log) /\ r_log[i+1].ev = "sleep"))
              /\ ((r_log[i].out.ok \/ CallsUpTo(r_log, i) = r_max) => i = Len(r_log))
    /\ (r_pc = "done" /\ Len(CallsOf(r_log)) >= 1) =>
          Len(SleepsOf(r_log)) = Len(CallsOf(r_log)) - 1

\* C9 witness: a call that failed four times slept base, 2*base and 4*base
C9_Witness ==
    /\ r_pc = "done"
    /\ r_base = 3
    /\ Len(CallsOf(r_log)) = 4
    /\ Len(SleepsOf(r_log)) = 3
    /\ SleepsOf(r_log)[1].secs = 3
    /\ SleepsOf(r_log)[2].secs = 6
    /\ SleepsOf(r_log)[3].secs = 12

\* ========================================================================
\* Claims about gui.rs (checked under SpecGui)
\* ========================================================================

\* the FinishStates the terminal match of on_progress_update ran for, in order
Handled == SelectSeq(g_takes, LAMBDA f : f # NoFinish)

\* the finish notice (the worker's or the guard's) was sent
FinishNoticeSent == w_pc \in {"mark_completed", "exited"} \/ (w_pc = "guard_drop" /\ guard_completed)

\* C10: in every interleaving the terminal handling runs at most once and
\* only for the value that was posted; after it ran SharedState.finish is
\* None, so later notices only refresh the progress; and once the finish
\* notice was sent and every notice dispatched, it ran exactly once.
C10_FinishConsumedOnce ==
    /\ Len(Handled) <= 1
    /\ Len(Handled) <= Len(w_posted)
    /\ \A i \in 1..Len(Handled) : Handled[i] = w_posted[i]
    /\ (Len(Handled) = Len(w_posted)) = (s_finish = NoFinish)
    /\ (FinishNoticeSent /\ notices = 0) => Len(Handled) = 1

\* C10 witness: the terminal handling ran on an earlier progress notice, and
\* later notices of the same run were dispatched and found finish = None
C10_Witness ==
    /\ w_pc = "exited"
    /\ notices = 0
    /\ Len(g_takes) = MaxProgress + 1
    /\ g_takes[1] = FinishSuccess
    /\ g_takes[Len(g_takes)] = NoFinish
    /\ g_shown = MaxProgress

\* the window was closed and the process left before any outcome was handled
ClosedEarly == g_pc = "exited" /\ Handled = <<>>

\* C11: at most one terminal outcome is ever written into the shared state:
\* the result of run_update if it returned, the guard's internal error if the
\* worker unwound before writing one; and unless the user closes the window
\* first, the outcome is eventually handled by the GUI thread (checked under
\* SpecGuiLive).
C11_OneTerminalOutcome ==
    /\ [](/\ Len(w_posted) <= 1
          /\ w_posted # <<>> =>
                w_posted[1] = IF w_result = NotReturned
                              THEN GuardError
                              ELSE FinishOf(w_result))
    /\ <>(Len(Handled) = 1 \/ ClosedEarly)

\* C11 witness: run_update panicked, the guard wrote its error and sent the
\* notice, and the GUI thread handled it
C11_Witness ==
    /\ w_pc = "exited"
    /\ w_result = NotReturned
    /\ ~guard_completed
    /\ w_posted = <<GuardError>>
    /\ Handled = <<GuardError>>

\* run_update returned Ok(Success) or Ok(Offline)
LaunchableResult == w_result.ok /\ w_result.kind \in {"Success", "Offline"}

\* C12: the launch timer is started and the launcher is spawned only in a run
\* whose run_update returned Success or Offline; in every other run
\* (SelfUpdateRestarting, an error, JavaNotFound, a panicked worker) the timer
\* is never started, nothing is spawned, and the handler that received the
\* outcome has asked the event loop to stop.
C12_LaunchOnlyOnSuccess ==
    /\ []((launch_timer \/ launched > 0) => LaunchableResult)
    /\ [](launched <= 1)
    /\ []((Len(Handled) = 1 /\ ~LaunchableResult) =>
            (~launch_timer /\ launched = 0 /\ g_pc \in {"stopping", "exited"}))
    /\ [][(launch_timer' /\ ~launch_timer) =>
            (LaunchableResult /\ s_finish = FinishSuccess)]_vars

\* C12 witness: an Offline run started the launcher and the updater left
C12_Witness ==
    /\ w_result = [ok |-> TRUE, kind |-> "Offline"]
    /\ Handled = <<FinishSuccess>>
    /\ launched = 1
    /\ g_pc = "exited"

\* ========================================================================
\* Claims about selfupdate.rs
\* ========================================================================

\* the download attempts of the check that has just returned all produced a
\* file the verification rejects
AllDownloadsRejected ==
    /\ u_pc = "returned"
    /\ u_dl # <<>>
    /\ \A i \in 1..Len(u_dl) : u_dl[i] \in {"empty", "bad_magic"}

\* helpers scheduled by the processes before the latest one
HelpersBefore == IF u_rev = "helper" THEN u_gen - 1 ELSE 0

\* C13: when every download attempt of the new executable ends with an empty
\* file or one that does not start with MZ, check_and_update returns an error
\* (not UpToDate, not Restarting), the temp file is gone afterwards, no helper
\* was spawned by this check and channel.json is as the check found it.
C13_RejectedDownloadIsHardError ==
    AllDownloadsRejected =>
        /\ u_result = "Err"
        /\ u_results[Len(u_results)] = "Err"
        /\ u_disk.exe_new = "absent"
        /\ hp_runs = HelpersBefore
        /\ hp_pc \in {"none", "done"}
        /\ u_disk.channel_json = u_disk0.channel_json
        /\ u_disk.exe = u_disk0.exe

C13_Witness ==
    /\ u_rev = "helper"
    /\ u_cfg.channel = "dev"
    /\ u_info.build_id \in BuildIds
    /\ u_pc = "returned"
    /\ u_dl = <<"empty", "bad_magic", "empty">>
    /\ u_result = "Err"
    /\ u_disk.exe_new = "absent"

\* C14: the running updater never writes, renames or truncates its own final
\* executable path: every change of the final path is made by the helper, and
\* only after its wait for the updater's process id has ended.
C14_OnlyHelperReplaces ==
    /\ \A w \in u_writers : w.by = "helper" /\ w.waited
    /\ u_pc \in {"check", "download", "persist", "spawn", "replace", "spawn_new"} =>
          u_disk.exe = u_disk0.exe

\* the updater-rs revision has renamed the downloaded file onto the final path
\* from inside the running process
C14_Witness ==
    /\ u_rev = "rename"
    /\ u_pc = "spawn_new"
    /\ u_disk.exe = "new"
    /\ u_disk.exe_old = "old"
    /\ [by |-> "updater", waited |-> FALSE] \in u_writers
    /\ hp_runs = 0

\* the helper script is between its first and its last statement
HelperRunning == hp_pc \in {"wait", "copy", "cleanup", "start"}

\* C15: once the helper has been started it eventually starts the final
\* executable, exactly once in every execution: Start-Process is run by no
\* earlier statement, and it is run whether the old process exited within the
\* wait or not and whether a copy succeeded or all attempts failed.
C15_HelperAlwaysRelaunches ==
    /\ (HelperRunning ~> hp_pc = "done")
    /\ [](HelperRunning => hp_starts = 0)
    /\ [](hp_pc = "done" => hp_starts = 1)
    /\ [][hp_starts' # hp_starts =>
            \/ (hp_pc = "start" /\ hp_starts' = hp_starts + 1 /\ u_gen' = u_gen + 1)
            \/ (hp_pc' = "wait" /\ hp_starts' = 0)]_vars

C15_Witness ==
    /\ hp_pc = "done"
    /\ hp_wait = "timeout"
    /\ hp_copies = <<FALSE, FALSE, FALSE>>
    /\ ~hp_ok
    /\ hp_starts = 1
    /\ u_gen = 2
    /\ u_disk.exe = "old"

\* some Copy-Item of the running or finished helper worked
SomeCopyWorked == \E i \in 1..Len(hp_copies) : hp_copies[i]

\* C16: the helper makes at most 3 copy attempts and none after one that
\* worked; it deletes the temp file exactly when some attempt worked; when all
\* attempts failed the final executable keeps its content and the helper
\* leaves the temp file as it is.
C16_CopyAttempts ==
    /\ [](Len(hp_copies) <= 3)
    /\ [](\A i \in 1..Len(hp_copies) : hp_copies[i] => i = Len(hp_copies))
    /\ [](hp_pc \in {"cleanup", "start", "done"} =>
            /\ hp_ok = SomeCopyWorked
            /\ ~SomeCopyWorked => Len(hp_copies) = 3)
    /\ []((hp_pc = "start" /\ SomeCopyWorked) => u_disk.exe_new = "absent")
    /\ []((hp_pc = "start" /\ ~SomeCopyWorked) =>
            (u_disk.exe = u_disk0.exe /\ u_disk.exe_new = "new"))
    /\ [][(hp_pc = "cleanup" /\ hp_pc' = "start") =>
            IF SomeCopyWorked
            THEN u_disk.exe_new # "absent" /\ u_disk'.exe_new = "absent"
            ELSE u_disk'.exe_new = u_disk.exe_new]_vars
    /\ [][(HelperRunning /\ hp_pc # "cleanup") => u_disk'.exe_new = u_disk.exe_new]_vars

C16_Witness ==
    /\ hp_pc = "start"
    /\ hp_copies = <<FALSE, TRUE>>
    /\ hp_ok
    /\ u_disk.exe = "new"
    /\ u_disk.exe_new = "absent"

\* the helper has run its last statement and the executable it started has not
\* yet done anything
HelperJustCompleted == hp_pc = "done" /\ u_pc \in {"startup", "untracked"}

DevRestarting ==
    /\ u_rev = "helper"
    /\ u_pc = "returned"
    /\ u_result = "Restarting"
    /\ u_cfg.channel = "dev"

\* C18: on the dev channel, whenever check_and_update returns Restarting for a
\* remote build id b, channel.json already holds devBuildId = b at that moment,
\* so a dev-channel check of the relaunched executable against the same b finds
\* nothing to update.
C18_BuildIdSavedBeforeRestart ==
    DevRestarting =>
        /\ u_info.build_id # None
        /\ read_channel_config(u_disk).dev_build_id = u_info.build_id
        /\ ~needs_update([channel |-> "dev",
                          dev_build_id |-> read_channel_config(u_disk).dev_build_id],
                         DocView(u_version, u_info))

\* save_channel_config failed in the first process: the relaunched executable
\* took channel.json with the former build id, found the same remote build id
\* different again, and returned Restarting a second time
C18_Witness ==
    /\ DevRestarting
    /\ u_gen = 2
    /\ u_results = <<"Restarting", "Restarting">>
    /\ u_info.build_id = "def5678"
    /\ read_channel_config(u_disk) = [channel |-> "dev", dev_build_id |-> "abc1234"]

\* the dev-channel decision in the words of the claim: the remote document
\* carries a build id and the local devBuildId is unset or another string
DevUpdateDue ==
    /\ u_info.build_id # None
    /\ (u_cfg.dev_build_id = None \/ u_cfg.dev_build_id # u_info.build_id)

\* C19: on the dev channel check_and_update goes on to download if and only if
\* the remote document carries a build id and the local devBuildId is unset or
\* a different string; a remote document without a build id never triggers an
\* update, whatever the local value. (A failed fetch of the document or of the
\* executable path returns an error on either side of the decision.)
C19_DevDecision ==
    /\ []((u_rev = "helper" /\ u_cfg.channel = "dev"
            /\ u_pc \in {"download", "persist", "spawn"}) => DevUpdateDue)
    /\ []((u_rev = "helper" /\ u_cfg.channel = "dev" /\ u_pc = "returned"
            /\ u_result = "UpToDate") => ~DevUpdateDue)
    /\ []((u_rev = "helper" /\ u_cfg.channel = "dev" /\ u_pc = "returned"
            /\ u_info.build_id = None) => (u_dl = <<>> /\ u_result # "Restarting"))
    /\ [][(u_rev = "helper" /\ u_cfg.channel = "dev" /\ u_pc = "check") =>
            /\ u_pc' = "download" => DevUpdateDue
            /\ u_result' = "UpToDate" => ~DevUpdateDue]_vars

C19_Witness ==
    /\ u_rev = "helper"
    /\ u_cfg = [channel |-> "dev", dev_build_id |-> None]
    /\ u_info.build_id = "def5678"
    /\ u_info.version = CURRENT_VERSION
    /\ u_pc = "download"
    /\ u_attempt = 1

\* the value of a decimal numeral read from its first digit on
RECURSIVE NumeralValue(_, _)
NumeralValue(s, acc) ==
    IF s = <<>> THEN acc ELSE NumeralValue(Tail(s), 10 * acc + DigitValue(Head(s)))

\* s[lo..hi] writes a non-negative integer: decimal digits, at least one, after
\* an optional plus sign
IsNumeral(s, lo, hi) ==
    LET from == IF lo <= hi /\ s[lo] = "+" THEN lo + 1 ELSE lo
    IN  from <= hi /\ \A k \in from..hi : IsDigit(s[k])

NumeralOf(s, lo, hi) ==
    NumeralValue(SubSeq(s, IF s[lo] = "+" THEN lo + 1 ELSE lo, hi), 0)

\* the positions of the dots of s
DotsOf(s) == {k \in 1..Len(s) : s[k] = "."}

\* the positions of s that hold no blank
InkOf(s) == {k \in 1..Len(s) : s[k] # " "}

Least(S) == CHOOSE k \in S : \A m \in S : k <= m

Greatest(S) == CHOOSE k \in S : \A m \in S : m <= k

\* the triples of non-negative integers that s writes as three numerals
\* separated by two dots, blanks before and after set aside: one triple or none
TriplesOf(s) ==
    IF Cardinality(DotsOf(s)) # 2
    THEN {}
    ELSE LET lo == Least(InkOf(s))
             hi == Greatest(InkOf(s))
             i == Least(DotsOf(s))
             j == Greatest(DotsOf(s))
         IN  IF /\ IsNumeral(s, lo, i - 1)
                /\ IsNumeral(s, i + 1, j - 1)
                /\ IsNumeral(s, j + 1, hi)
             THEN {<<NumeralOf(s, lo, i - 1), NumeralOf(s, i + 1, j - 1),
                     NumeralOf(s, j + 1, hi)>>}
             ELSE {}

\* r comes strictly after c in the lexicographic order of triples
LexGreater(r, c) ==
    \E k \in 1..3 : r[k] > c[k] /\ \A m \in 1..(k - 1) : r[m] = c[m]

\* C20: is_remote_newer(current, remote) is true if and only if both strings
\* write exactly three dot-separated non-negative integers and the triple of
\* remote is lexicographically strictly greater than the triple of current; it
\* is false for equal versions, for an older remote and whenever either string
\* does not parse.
C20_IsRemoteNewer ==
    sv_result.returned =>
        LET cur == TriplesOf(sv_current)
            rem == TriplesOf(sv_remote)
        IN  /\ sv_result.value = (\E c \in cur, r \in rem : LexGreater(r, c))
            /\ (cur = {} \/ rem = {}) => ~sv_result.value
            /\ rem = cur => ~sv_result.value

C20_Witness ==
    /\ sv_pc = "called"
    /\ sv_current = <<"0", ".", "1", "0", ".", "0">>
    /\ sv_remote = <<"2", ".", "0", ".", "0">>
    /\ sv_result = [returned |-> TRUE, value |-> TRUE]

\* ========================================================================
\* Claims about version.rs, main.rs and bootstrap.rs
\* ========================================================================

\* the Minecraft version and the Fabric loader version of local.json, as
\* read_local_version reads them, both equal those of the remote
TrackedTagsEqual ==
    LET local == read_local_version(disk)
    IN  /\ local.mc_version = p_remote.mc_version
        /\ local.fabric_version = p_remote.fabric_version

\* C21: needs_version_upgrade(remote, local) is false exactly when the
\* Minecraft version and the Fabric loader version are both equal in remote and
\* local: the version check of a run goes on to the upgrade stage (whose first
\* step is install_fabric) when either differs and past it when both are equal.
C21_UpgradeIffTagDiffers ==
    /\ [][(pc = "version_check" /\ pc' # "version_check" /\ p_outcome' = NotReturned) =>
            /\ ~TrackedTagsEqual => pc' = "install_fabric"
            /\ TrackedTagsEqual => pc' = "ensure_vanilla"]_vars
    /\ [](pc \in UpgradePcs => ~TrackedTagsEqual)

C21_Witness ==
    /\ pc = "install_fabric"
    /\ disk.local_json.state = "json"
    /\ disk.local_json.value.mc_version = p_remote.mc_version
    /\ disk.local_json.value.fabric_version # p_remote.fabric_version

\* local.json is missing, unreadable or does not parse
LocalJsonUnusable == disk.local_json.state # "json"

\* C22: read_local_version never fails: for a missing, unreadable or
\* unparsable local.json it yields the all-empty LocalVersion, and a run that
\* reaches the version check in that state, its remote having non-empty
\* versions, enters the upgrade stage.
C22_UnusableLocalForcesUpgrade ==
    /\ [](LocalJsonUnusable =>
            /\ read_local_version(disk).mc_version = ""
            /\ read_local_version(disk).fabric_version = ""
            /\ read_local_version(disk).version_tag = <<>>)
    /\ [][(LocalJsonUnusable /\ pc = "version_check" /\ pc' # "version_check"
            /\ p_outcome' = NotReturned /\ p_remote.mc_version # ""
            /\ p_remote.fabric_version # "") => pc' = "install_fabric"]_vars

C22_Witness ==
    /\ pc = "install_fabric"
    /\ disk.local_json = Corrupt
    /\ p_run = 2
    /\ p_remote \in RemoteVersions

\* the ChannelConfig channel.json holds, the default one when the file is
\* missing or unreadable
PersistedChannelConfig == read_channel_config(disk)

\* C23: in every channel.json the launches and the dev self-updates leave
\* behind, a channel of stable comes with no dev build id
C23_StableHasNoBuildId ==
    disk.channel_json.state = "json" =>
        (disk.channel_json.value.channel = "stable" =>
            disk.channel_json.value.dev_build_id = None)

\* a launch with --channel dev whose save of channel.json failed, and whose
\* dev self-update then saved the build id into the configuration it read back
C23_Witness ==
    /\ p_channel.channel = "dev"
    /\ p_disk0.channel_json = NoFile
    /\ Returned(p_events, "check_and_update", "Restarting")
    /\ PersistedChannelConfig.channel = "stable"
    /\ PersistedChannelConfig.dev_build_id \in BuildIds

\* the step of main that resolves the channel
LaunchStep == c_pc = "launch" /\ c_pc' = "running"

StartupStep == u_rev = "helper" /\ u_pc = "startup" /\ u_pc' = "check"

FetchMetMalformed ==
    /\ p_served = "malformed"
    /\ Returned(p_events, "fetch_remote_version", "Err")

\* C26: a run whose fetch_remote_version fails on a server.json or pack.toml
\* that does not parse ends with an error and not with Offline, with or
\* without a bootstrapped install
C26_MalformedIsFatal ==
    FetchMetMalformed => p_outcome = OtherError

\* a later start of a bootstrapped install reached the server, could not parse
\* what it got, and ended Offline with the progress at 100
C26_Witness ==
    /\ FetchMetMalformed
    /\ p_run = 2
    /\ p_faults = 0
    /\ p_disk0.pcl2 = "complete"
    /\ p_outcome = Offline
    /\ p_percent = 100

\* C27: an operation whose error reached run_update was issued
\* RETRY_MAX_ATTEMPTS times, whichever network operation of the run it is
C27_EveryNetworkCallRetried ==
    \A site \in n_failed : n_calls[site] = RETRY_MAX_ATTEMPTS

\* the launcher download of a first run failed at its only request and ended
\* the run
C27_Witness ==
    /\ n_pc = "done"
    /\ n_result = "Failed"
    /\ n_failed = {"download_pcl2"}
    /\ n_calls["download_pcl2"] = 1
    /\ n_calls["fetch_remote_version"] = 1

\* the files whose existence stands for an installed component
ComponentFiles ==
    {disk.pcl2, disk.packwiz_jar, disk.fabric_jar} \cup {disk.versions[v] : v \in VanillaDirs}

\* C28: a component file that exists at its final path, and so passes
\* needs_bootstrap, is_bootstrapped and the exists-then-skip checks, holds a
\* complete download
C28_InstalledMeansComplete ==
    \A f \in ComponentFiles : Exists(f) => f = "complete"

\* the launcher download of the first run broke off; the second run found
\* the file, skipped the download and ended with Success
C28_Witness ==
    /\ p_run = 2
    /\ p_disk0.pcl2 = "partial"
    /\ ~needs_bootstrap(disk)
    /\ is_bootstrapped(disk)
    /\ disk.pcl2 = "partial"
    /\ p_outcome = Success

\* C29: a run that goes through to Success leaves the settings marker
\* behind: it found the marker, or it found none, installed the archive and
\* wrote the marker
C29_SettingsInstalledOnce ==
    p_outcome = Success => disk.settings_marker

\* the first run downloaded the settings archive and failed to extract it;
\* the second run found every component, skipped run_bootstrap and ended with
\* Success, the archive still beside the updater, nothing of it installed and
\* no marker written
C29_Witness ==
    /\ p_run = 2
    /\ p_outcome = Success
    /\ ~Invoked(p_events, "run_bootstrap")
    /\ p_disk0.settings_zip = "complete"
    /\ ~disk.settings_marker
    /\ ~disk.settings_applied

\* the position of the first entry of the archive with this name, 0 without one
FirstEntry(name) ==
    LET at == {i \in 1..Len(z_archive) : z_archive[i].name = name}
    IN  IF at = {} THEN 0 ELSE CHOOSE i \in at : \A j \in at : i <= j

\* what the entry e puts at a path that does not exist
WrittenBy(e) == IF e.is_dir THEN "dir" ELSE e.data

LatestOk == z_results[Len(z_results)]

\* C30: an extraction leaves every path that existed before it as it was;
\* when it returns Ok, every path that did not exist holds what the first
\* entry of that name carries, and stays absent without such an entry; and an
\* extraction that follows one that returned Ok returns Ok and changes nothing
C30_MergeWithoutOverwrite ==
    z_pc = "extracted" =>
        /\ \A n \in ZipNames : z_prev[n] # "absent" => z_fs[n] = z_prev[n]
        /\ LatestOk =>
            \A n \in ZipNames :
                z_prev[n] = "absent" =>
                    z_fs[n] = IF FirstEntry(n) = 0 THEN "absent"
                              ELSE WrittenBy(z_archive[FirstEntry(n)])
        /\ (Len(z_results) > 1 /\ z_results[Len(z_results) - 1]) =>
                LatestOk /\ z_fs = z_prev

\* the archive carries options.txt and config; the player's options.txt was
\* there before, config was not; two extractions have run and returned Ok
C30_Witness ==
    /\ z_results = <<TRUE, TRUE>>
    /\ z_before["options.txt"] = "player"
    /\ z_before["config"] = "absent"
    /\ FirstEntry("options.txt") # 0
    /\ ~z_archive[FirstEntry("options.txt")].is_dir
    /\ z_fs["options.txt"] = "player"
    /\ z_fs["config"] = "pack_b"

\* the archive has an entry whose path lies outside the destination directory
HasEscapingEntry ==
    \E i \in 1..Len(z_archive) : z_archive[i].name \in EscapingNames

\* C31: an extraction of an archive with an entry whose path lies outside the
\* destination directory returns an error, and no path outside the
\* destination directory is ever created or changed
C31_TraversalRejected ==
    z_pc = "extracted" =>
        /\ HasEscapingEntry => ~LatestOk
        /\ \A n \in EscapingNames : z_fs[n] = z_before[n]

\* an extraction returned Ok after it wrote the entry ../servers.dat beside
\* the destination directory
C31_Witness ==
    /\ z_results = <<TRUE>>
    /\ HasEscapingEntry
    /\ z_before["../servers.dat"] = "absent"
    /\ z_fs["../servers.dat"] \in PackData

\* ========================================================================
\* Claims about the archives, the version directories and the stages
\* ========================================================================

\* every entry of the archive has the first path segment of the first one
AllShareFirstSegment ==
    /\ t_archive # <<>>
    /\ \A i \in 1..Len(t_archive) : first_segment(t_archive[i]) = first_segment(t_archive[1])

\* the name without its first segment and the separator after it
WithoutFirstSegment(name) == SubSeq(name, Len(first_segment(name)) + 2, Len(name))

AllBelowOneDirectory ==
    /\ t_archive # <<>>
    /\ first_segment(t_archive[1]) # <<>>
    /\ \A i \in 1..Len(t_archive) :
          /\ FirstSlash(t_archive[i]) # 0
          /\ first_segment(t_archive[i]) = first_segment(t_archive[1])

\* two entries differ in their first path segment
SegmentsDisagree ==
    \E i, j \in 1..Len(t_archive) : first_segment(t_archive[i]) # first_segment(t_archive[j])

RepeatedStepsCalled ==
    /\ e_pc = "fix_isolation" => "ensure_vanilla_client" \in e_called
    /\ e_pc \in {"sync", "launched"} => e_called = EnsureSteps

\* ensure_vanilla_client finding both client files: no request, no write, Ok
VanillaStepIsNoOp ==
    e_pc = "ensure_vanilla" /\ e_pc' # e_pc /\ Exists(e_json) /\ Exists(e_jar) =>
        /\ e_requests' = 0
        /\ ~e_wrote'
        /\ e_json' = e_json /\ e_jar' = e_jar
        /\ e_pc' = "fix_isolation"

\* fix_version_isolation applied to the Setup.ini of the state leaves a file
\* without VersionArgumentIndieV2:True, which a second application returns as it is
IsolationIdempotent ==
    LET r == fix_version_isolation(e_ini, "ok")
    IN  /\ r.ok
        /\ r.ini.exists
        /\ ~contains(r.ini.content, {IndieTrue})
        /\ \A out \in {"ok", "failed", "interrupted"} :
            fix_version_isolation(r.ini, out).ini = r.ini
        /\ fix_version_isolation(r.ini, "ok").ok

\* C34: every run that gets past the version check calls ensure_vanilla_client
\* and fix_version_isolation whether or not it upgraded; ensure_vanilla_client
\* sends no request and writes nothing when both client files exist;
\* fix_version_isolation returning Ok leaves Setup.ini existing without
\* VersionArgumentIndieV2:True, and a second application leaves it unchanged
C34_EnsureStepsRepeatAsNoOps ==
    /\ [](RepeatedStepsCalled /\ IsolationIdempotent
          /\ (e_pc \in {"sync"} =>
                e_ini.exists /\ ~contains(e_ini.content, {IndieTrue})))
    /\ [][VanillaStepIsNoOp]_vars

\* a second run without upgrade passed both steps: the client files were there,
\* and the setting the launcher had switched on is off again
C34_Witness ==
    /\ e_run = 2
    /\ e_pc = "sync"
    /\ ~e_upgraded
    /\ e_called = EnsureSteps
    /\ e_requests = 0
    /\ ~e_wrote
    /\ e_ini.exists
    /\ contains(e_ini.content, {IndieFalse})

\* ========================================================================
\* Claims about the progress, the errors and the order of the stages
\* ========================================================================

\* C35: within one run the percent values handed to on_progress never
\* decrease and lie within 0..100, whatever the stages of the run do
C35_ProgressNeverDecreases ==
    /\ [](p_percent \in 0..100)
    /\ [][p_run' = p_run => p_percent' >= p_percent]_vars

\* the bootstrap stage has reported 2 in a run whose self-update had
\* downloaded the new updater, which reported 10, and then failed
C35_Witness ==
    /\ pc = "bs_jre"
    /\ p_percent = 2
    /\ Returned(p_events, "check_and_update", "Err")
    /\ Exists(disk.exe_new)

RECURSIVE RootCause(_)
\* the error a chain of contexts was attached to
RootCause(e) == IF e.kind = "context" THEN RootCause(e.cause) ELSE e

\* C36: when run_update returned an error raised as JavaNotFound, with or
\* without the context with_retry attaches, the worker posts
\* FinishState::JavaNotFound; for every other error it posts FinishState::Error
\* whose text ends with the message of the error that was raised
C36_JavaNotFoundIsDistinct ==
    w_result # NotReturned /\ ~w_result.ok /\ w_posted # <<>> =>
        IF RootCause(w_result).kind = "JavaNotFound"
        THEN w_posted[1] = FinishJavaNotFound
        ELSE /\ w_posted[1].tag = "Error"
             /\ w_posted[1].msg # <<>>
             /\ w_posted[1].msg[Len(w_posted[1].msg)] = RootCause(w_result).kind

\* the GUI thread took JavaNotFound after sync_modpack had failed for want of
\* Java and with_retry had wrapped the error
C36_Witness ==
    /\ w_result.kind = "context"
    /\ RootCause(w_result).kind = "JavaNotFound"
    /\ \E i \in 1..Len(g_takes) : g_takes[i] = FinishJavaNotFound

\* the operations of run_update in the order of the program text
StageOrder ==
    <<"fetch_remote_version", "check_and_update", "run_bootstrap", "install_fabric",
      "cleanup_old_versions", "clean_mods_dir", "save_local_version",
      "ensure_vanilla_client", "fix_version_isolation", "sync_modpack">>

StageRank(op) == CHOOSE i \in 1..Len(StageOrder) : StageOrder[i] = op

\* the operations of the stages from the bootstrap stage on
AbortingOps == {StageOrder[i] : i \in 3..Len(StageOrder)}

\* C37: the operations of a run are called one after the other in program
\* order; sync_modpack is called only after run_bootstrap (when the components
\* were missing), the upgrade operations (when the versions differed),
\* ensure_vanilla_client and fix_version_isolation returned Ok in this run;
\* an operation of the bootstrap, upgrade, ensure or sync stage that returned
\* Err is the last one of its run, which has returned an error and has not
\* reported 100
C37_StagesInSequence ==
    /\ \A i, j \in 1..Len(p_events) :
        i < j => StageRank(p_events[i].op) < StageRank(p_events[j].op)
    /\ Invoked(p_events, "sync_modpack") =>
        /\ needs_bootstrap(p_disk0) => Returned(p_events, "run_bootstrap", "Ok")
        /\ needs_version_upgrade(p_remote, read_local_version(p_disk0)) =>
            \A op \in UpgradeOps : Returned(p_events, op, "Ok")
        /\ Returned(p_events, "ensure_vanilla_client", "Ok")
        /\ Returned(p_events, "fix_version_isolation", "Ok")
    /\ \A i \in 1..Len(p_events) :
        p_events[i].op \in AbortingOps /\ p_events[i].res = "Err" =>
            /\ i = Len(p_events)
            /\ pc = "idle"
            /\ p_outcome # NotReturned /\ ~p_outcome.ok
            /\ p_percent # 100

\* a run that upgraded and then failed in ensure_vanilla_client: it returned
\* the error at 79 percent, and sync_modpack was not called
C37_Witness ==
    /\ pc = "idle"
    /\ Returned(p_events, "save_local_version", "Ok")
    /\ Returned(p_events, "ensure_vanilla_client", "Err")
    /\ ~Invoked(p_events, "sync_modpack")
    /\ p_outcome = OtherError
    /\ p_percent = 79

\* C38: on the dev channel the devBuildId kept in channel.json differs from the
\* one the run started with only if the run's check_and_update returned
\* Restarting
C38_BuildIdOnlyOnRestart ==
    p_channel.channel = "dev"
    /\ read_channel_config(disk).dev_build_id # p_channel.dev_build_id =>
        Returned(p_events, "check_and_update", "Restarting")

\* check_and_update returned Err with the verified download in place, and
\* channel.json already names the build that was not installed
C38_Witness ==
    /\ p_channel.channel = "dev"
    /\ Returned(p_events, "check_and_update", "Err")
    /\ Exists(disk.exe_new)
    /\ read_channel_config(disk).dev_build_id # p_channel.dev_build_id

\* ========================================================================
\* Claims about the restart chain and the temp file
\* ========================================================================

\* the checks of this chain of processes that returned Restarting
RestartingChecks == {i \in 1..Len(u_results) : u_results[i] = "Restarting"}

\* C39: against one remote document, once check_and_update has returned
\* Restarting the check of the relaunched executable does not return
\* Restarting again, whether the helper's copy worked or not
C39_RestartsOnce ==
    u_rev = "helper" => Cardinality(RestartingChecks) <= 1

\* stable channel: no copy of the helper worked, the old executable was started
\* again, found the same newer version and returned Restarting a second time
C39_Witness ==
    /\ u_rev = "helper"
    /\ u_cfg.channel = "stable"
    /\ u_results = <<"Restarting", "Restarting">>
    /\ u_writers = {}
    /\ u_disk.exe = "old"
    /\ u_version = CURRENT_VERSION

\* the helper has been scheduled and has not finished its Copy-Item attempts
CopyPending == hp_pc \in {"wait", "copy"}

\* C40: from the scheduling of the helper until its copy attempts have
\* finished the verified temp file is in place, whatever else runs meanwhile,
\* the startup cleanup of another updater process included
C40_TempFileStays ==
    CopyPending => u_disk.exe_new = "new"

\* the helper is about to copy and the temp file it was scheduled for is gone
C40_Witness ==
    /\ hp_pc = "copy"
    /\ hp_copies = <<>>
    /\ u_results = <<"Restarting">>
    /\ u_disk.exe_new = "absent"

====
